---- MODULE Spec2Model ----
(***************************************************************************)
(* The editing core of rediff: TextBuffer (crates/text), Cursor            *)
(* (crates/cursor) and Editor (crates/editor).                             *)
(*                                                                         *)
(* A buffer is a sequence of characters (Unicode scalar values); offsets   *)
(* are 0-based as in the source, so the character at offset i of a         *)
(* sequence s is s[i + 1].                                                  *)
(***************************************************************************)
EXTENDS Integers, Sequences, FiniteSets, TLC

\* Bounds of the model.
MaxLen == 2        \* longest buffer an Editor run builds (Spec, SpecShape, SpecView)
MaxBuf == 5        \* longest buffer of the Cursor, TextBuffer and editing runs
MaxSel == 3        \* longest buffer of the selection runs and of the loops
MaxLine == 2       \* greatest line index handed to a LineCache
MaxVersion == 2    \* greatest buffer version handed to a LineCache
MaxDiff == 3       \* longest text handed to a Differ

\* One character of each class the code distinguishes.
NL == "\n"
Alphabet == {"a", " ", NL, "."}

Min(a, b) == IF a < b THEN a ELSE b
Max(a, b) == IF a > b THEN a ELSE b

\* All character sequences of length <= n.
SeqsUpTo(n) == UNION {[1..k -> Alphabet] : k \in 0..n}

\* chars[i] with a 0-based index.
At(chars, i) == chars[i + 1]

\* chars[from..to) with 0-based offsets.
Slice(chars, from, to) == SubSeq(chars, from + 1, to)

\* char::is_whitespace, char::is_alphanumeric on the model's alphabet.
is_whitespace(ch) == ch \in {" ", NL}
is_alphanumeric(ch) == ch = "a"

\* A character of four bytes in UTF-8 (the tests' emoji), neither whitespace
\* nor alphanumeric, and char::len_utf8.
Globe == "U+1F30D"
len_utf8(ch) == IF ch = Globe THEN 4 ELSE 1

(***************************************************************************)
(* ropey::Rope, as TextBuffer uses it. A line break is "\n".                *)
(***************************************************************************)
len_chars(rope) == Len(rope)

\* The offsets of the line breaks.
Breaks(rope) == {i \in 0..(Len(rope) - 1) : At(rope, i) = NL}

len_lines(rope) == 1 + Cardinality(Breaks(rope))

\* The line of a char offset: the number of line breaks before it.
char_to_line(rope, char_idx) == Cardinality({i \in Breaks(rope) : i < char_idx})

\* The offset of the first char of a line (len_chars for the line one past
\* the last).
line_to_char(rope, line_idx) ==
  IF line_idx = 0 THEN 0
  ELSE IF line_idx >= len_lines(rope) THEN len_chars(rope)
  ELSE 1 + CHOOSE i \in Breaks(rope) :
             Cardinality({j \in Breaks(rope) : j < i}) = line_idx - 1

\* The text of a line, its line break included.
rope_line(rope, line_idx) ==
  Slice(rope, line_to_char(rope, line_idx), line_to_char(rope, line_idx + 1))

\* Rope::remove(start..end) panics on start > end or end > len_chars.
remove_panics(rope, start, end) == start > end \/ end > len_chars(rope)
remove(rope, start, end) ==
  Slice(rope, 0, start) \o Slice(rope, end, len_chars(rope))

\* Rope::insert(char_idx, text) panics on char_idx > len_chars.
insert_panics(rope, char_idx) == char_idx > len_chars(rope)
rope_insert(rope, char_idx, text) ==
  Slice(rope, 0, char_idx) \o text \o Slice(rope, char_idx, len_chars(rope))

(***************************************************************************)
(* TextBuffer                                                              *)
(***************************************************************************)
buffer_new == << >>

\* TextBuffer::delete: [panic, buffer].
delete_end(buffer, index, len) == Min(index + len, len_chars(buffer))
delete_panics(buffer, index, len) ==
  remove_panics(buffer, index, delete_end(buffer, index, len))
delete(buffer, index, len) == remove(buffer, index, delete_end(buffer, index, len))

\* TextBuffer::insert.
insert(buffer, index, content) == rope_insert(buffer, index, content)

\* line_count counting lines as str::lines does: no line after a trailing
\* line break, none in an empty buffer.
line_count_as_str_lines(buffer) ==
  IF len_chars(buffer) = 0 THEN 0
  ELSE IF At(buffer, len_chars(buffer) - 1) = NL THEN len_lines(buffer) - 1
  ELSE len_lines(buffer)

buffer_len(buffer) == len_chars(buffer)
line_count(buffer) == len_lines(buffer)

\* TextBuffer::line: <<>> is None, <<text>> is Some(text).
line(buffer, line_idx) ==
  IF line_idx < len_lines(buffer) THEN <<rope_line(buffer, line_idx)>> ELSE << >>

\* char_to_line_col with the slip of returning the offset itself as the column
\* (line_start not subtracted).
char_to_line_col_abs(buffer, char_idx) ==
  LET idx == Min(char_idx, len_chars(buffer))
  IN <<char_to_line(buffer, idx), idx>>

char_to_line_col(buffer, char_idx) ==
  LET idx == Min(char_idx, len_chars(buffer))
      ln == char_to_line(buffer, idx)
      line_start == line_to_char(buffer, ln)
  IN <<ln, idx - line_start>>

\* line_col_to_char clamping the column to the line without its newline.
line_col_to_char_before_newline(buffer, ln, col) ==
  IF ln >= len_lines(buffer) THEN len_chars(buffer)
  ELSE LET line_start == line_to_char(buffer, ln)
           line_end == IF ln + 1 < len_lines(buffer)
                       THEN line_to_char(buffer, ln + 1) - 1
                       ELSE len_chars(buffer)
       IN Min(line_start + col, line_end)

line_col_to_char(buffer, ln, col) ==
  IF ln >= len_lines(buffer) THEN len_chars(buffer)
  ELSE LET line_start == line_to_char(buffer, ln)
           line_end == IF ln + 1 < len_lines(buffer)
                       THEN line_to_char(buffer, ln + 1)
                       ELSE len_chars(buffer)
       IN Min(line_start + col, line_end)

(***************************************************************************)
(* Cursor                                                                  *)
(***************************************************************************)
\* CursorGoal
GoalNone == <<"None">>
Column(c) == <<"Column", c>>
IsColumn(goal) == goal[1] = "Column"

MkCursor(index, goal) == [index |-> index, goal |-> goal]

cursor_new == MkCursor(0, GoalNone)

is_word_char(ch) == is_alphanumeric(ch) \/ ch = "_"

\* The length of a line without its trailing newlines (0 when the line does
\* not exist): line(..).map(|l| l.trim_end_matches('\n').chars().count())
\* .unwrap_or(0).
RECURSIVE trim_end_matches_nl(_)
trim_end_matches_nl(l) ==
  IF Len(l) > 0 /\ l[Len(l)] = NL
  THEN trim_end_matches_nl(SubSeq(l, 1, Len(l) - 1))
  ELSE l

line_len_trimmed(buffer, ln) ==
  LET l == line(buffer, ln)
  IN IF l = << >> THEN 0 ELSE Len(trim_end_matches_nl(l[1]))

move_left(cursor) ==
  MkCursor(IF cursor.index > 0 THEN cursor.index - 1 ELSE cursor.index, GoalNone)

\* move_right without the bound.
move_right_unbounded(cursor, max) == MkCursor(cursor.index + 1, GoalNone)

move_right(cursor, max) ==
  MkCursor(IF cursor.index < max THEN cursor.index + 1 ELSE cursor.index, GoalNone)

\* The column a vertical move aims at.
goal_col_of(cursor, col) ==
  IF IsColumn(cursor.goal) THEN cursor.goal[2] ELSE col

\* move_up leaving the index where it is on the first line.
move_up_stays_on_first_line(cursor, buffer) ==
  LET lc == char_to_line_col(buffer, cursor.index)
      goal_col == goal_col_of(cursor, lc[2])
      new_line == lc[1] - 1
      new_col == Min(goal_col, line_len_trimmed(buffer, new_line))
  IN MkCursor(IF lc[1] > 0 THEN line_col_to_char(buffer, new_line, new_col)
              ELSE cursor.index,
              Column(goal_col))

move_up(cursor, buffer) ==
  LET lc == char_to_line_col(buffer, cursor.index)
      goal_col == goal_col_of(cursor, lc[2])
      new_line == lc[1] - 1
      new_col == Min(goal_col, line_len_trimmed(buffer, new_line))
  IN MkCursor(IF lc[1] > 0 THEN line_col_to_char(buffer, new_line, new_col) ELSE 0,
              Column(goal_col))

\* move_down with the slip of remembering the clamped column as the goal.
move_down_clamped_goal(cursor, buffer) ==
  LET lc == char_to_line_col(buffer, cursor.index)
      goal_col == goal_col_of(cursor, lc[2])
      new_line == lc[1] + 1
      new_col == Min(goal_col, line_len_trimmed(buffer, new_line))
  IN IF lc[1] < line_count(buffer) - 1
     THEN MkCursor(line_col_to_char(buffer, new_line, new_col), Column(new_col))
     ELSE MkCursor(buffer_len(buffer), Column(goal_col))

move_down(cursor, buffer) ==
  LET lc == char_to_line_col(buffer, cursor.index)
      goal_col == goal_col_of(cursor, lc[2])
      new_line == lc[1] + 1
      new_col == Min(goal_col, line_len_trimmed(buffer, new_line))
  IN MkCursor(IF lc[1] < line_count(buffer) - 1
              THEN line_col_to_char(buffer, new_line, new_col)
              ELSE buffer_len(buffer),
              Column(goal_col))

move_to_line_start(cursor, buffer) ==
  LET lc == char_to_line_col(buffer, cursor.index)
  IN MkCursor(line_col_to_char(buffer, lc[1], 0), GoalNone)

\* move_to_line_end with the slip of leaving the goal as it was.
move_to_line_end_keeps_goal(cursor, buffer) ==
  LET lc == char_to_line_col(buffer, cursor.index)
  IN MkCursor(line_col_to_char(buffer, lc[1], line_len_trimmed(buffer, lc[1])),
              cursor.goal)

\* move_to_line_end counting the line's newline into its length.
move_to_line_end_past_newline(cursor, buffer) ==
  LET lc == char_to_line_col(buffer, cursor.index)
  IN MkCursor(line_col_to_char(buffer, lc[1], Len(rope_line(buffer, lc[1]))),
              GoalNone)

move_to_line_end(cursor, buffer) ==
  LET lc == char_to_line_col(buffer, cursor.index)
  IN MkCursor(line_col_to_char(buffer, lc[1], line_len_trimmed(buffer, lc[1])),
              GoalNone)

move_to_buffer_start(cursor) == MkCursor(0, GoalNone)

move_to_buffer_end(cursor, buffer) == MkCursor(buffer_len(buffer), GoalNone)

\* The backward scan of the whitespace branch of find_word_boundaries.
RECURSIVE ws_scan_left(_, _)
ws_scan_left(chars, start) ==
  IF start > 0 /\ is_whitespace(At(chars, start - 1)) /\ At(chars, start - 1) # NL
  THEN ws_scan_left(chars, start - 1)
  ELSE start

\* The forward scan of the whitespace branch with the slip of running over
\* newlines.
RECURSIVE ws_scan_right_over_nl(_, _)
ws_scan_right_over_nl(chars, end) ==
  IF end < Len(chars) /\ is_whitespace(At(chars, end))
  THEN ws_scan_right_over_nl(chars, end + 1)
  ELSE end

\* The forward scan of the whitespace branch.
RECURSIVE ws_scan_right(_, _)
ws_scan_right(chars, end) ==
  IF end < Len(chars) /\ is_whitespace(At(chars, end)) /\ At(chars, end) # NL
  THEN ws_scan_right(chars, end + 1)
  ELSE end

\* The loop condition of the two scans of the last branch: the character
\* continues the run.
continues_run(ch, current_is_word) ==
  /\ ~(ch = NL \/ is_whitespace(ch))
  /\ is_word_char(ch) = current_is_word

\* The backward scan of the last branch with the slip of not comparing the
\* word / non-word class.
RECURSIVE word_scan_left_any_class(_, _, _)
word_scan_left_any_class(chars, start, current_is_word) ==
  IF start > 0 /\ ~is_whitespace(At(chars, start - 1))
  THEN word_scan_left_any_class(chars, start - 1, current_is_word)
  ELSE start

RECURSIVE word_scan_left(_, _, _)
word_scan_left(chars, start, current_is_word) ==
  IF start > 0 /\ continues_run(At(chars, start - 1), current_is_word)
  THEN word_scan_left(chars, start - 1, current_is_word)
  ELSE start

\* The forward scan of the last branch letting a run of non-word characters
\* run over spaces.
RECURSIVE word_scan_right_over_spaces(_, _, _)
word_scan_right_over_spaces(chars, end, current_is_word) ==
  IF /\ end < Len(chars)
     /\ \/ continues_run(At(chars, end), current_is_word)
        \/ (At(chars, end) = " " /\ ~current_is_word)
  THEN word_scan_right_over_spaces(chars, end + 1, current_is_word)
  ELSE end

RECURSIVE word_scan_right(_, _, _)
word_scan_right(chars, end, current_is_word) ==
  IF end < Len(chars) /\ continues_run(At(chars, end), current_is_word)
  THEN word_scan_right(chars, end + 1, current_is_word)
  ELSE end

find_word_boundaries(buffer, position) ==
  LET chars == buffer
      clamped_pos == Min(position, Len(chars))
      start_pos == IF clamped_pos = Len(chars) /\ clamped_pos > 0
                   THEN clamped_pos - 1
                   ELSE clamped_pos
  IN IF Len(chars) = 0 THEN <<0, 0>>
     ELSE IF start_pos >= Len(chars) THEN <<Len(chars), Len(chars)>>
     ELSE LET current_char == At(chars, start_pos)
          IN IF current_char = NL THEN <<start_pos, start_pos + 1>>
             ELSE IF is_whitespace(current_char)
             THEN <<ws_scan_left(chars, start_pos), ws_scan_right(chars, start_pos + 1)>>
             ELSE <<word_scan_left(chars, start_pos, is_word_char(current_char)),
                    word_scan_right(chars, start_pos, is_word_char(current_char))>>

\* move_word_left looking up the segment at the cursor instead of the one
\* before it.
move_word_left_at_cursor(cursor, buffer) ==
  IF cursor.index = 0 THEN MkCursor(cursor.index, GoalNone)
  ELSE IF cursor.index > Len(buffer) THEN MkCursor(Len(buffer), GoalNone)
  ELSE IF Len(buffer) = 0 THEN MkCursor(cursor.index, GoalNone)
  ELSE LET lc == char_to_line_col(buffer, cursor.index)
           line_start == line_col_to_char(buffer, lc[1], 0)
           start == find_word_boundaries(buffer, cursor.index)[1]
       IN MkCursor(IF lc[2] > 0 THEN Max(start, line_start) ELSE start, GoalNone)

\* move_word_left clamping to the start of the line at every column.
move_word_left_always_clamped(cursor, buffer) ==
  IF cursor.index = 0 THEN MkCursor(cursor.index, GoalNone)
  ELSE IF cursor.index > Len(buffer) THEN MkCursor(Len(buffer), GoalNone)
  ELSE IF Len(buffer) = 0 THEN MkCursor(cursor.index, GoalNone)
  ELSE LET lc == char_to_line_col(buffer, cursor.index)
           line_start == line_col_to_char(buffer, lc[1], 0)
           start == find_word_boundaries(buffer, cursor.index - 1)[1]
       IN MkCursor(Max(start, line_start), GoalNone)

move_word_left(cursor, buffer) ==
  IF cursor.index = 0 THEN MkCursor(cursor.index, GoalNone)
  ELSE IF cursor.index > Len(buffer) THEN MkCursor(Len(buffer), GoalNone)
  ELSE IF Len(buffer) = 0 THEN MkCursor(cursor.index, GoalNone)
  ELSE LET lc == char_to_line_col(buffer, cursor.index)
           line_start == line_col_to_char(buffer, lc[1], 0)
           start == find_word_boundaries(buffer, cursor.index - 1)[1]
       IN MkCursor(IF lc[2] > 0 THEN Max(start, line_start) ELSE start, GoalNone)

\* move_word_right stopping in front of the newline that ends the line.
move_word_right_before_newline(cursor, buffer) ==
  LET text_len == Len(buffer)
      current_line == char_to_line_col(buffer, cursor.index)[1]
      line_end_index == IF current_line + 1 < line_count(buffer)
                        THEN line_col_to_char(buffer, current_line + 1, 0) - 1
                        ELSE text_len
      end == find_word_boundaries(buffer, cursor.index)[2]
  IN IF cursor.index >= text_len THEN MkCursor(cursor.index, GoalNone)
     ELSE MkCursor(Min(end, line_end_index), GoalNone)

move_word_right(cursor, buffer) ==
  LET text_len == Len(buffer)
      current_line == char_to_line_col(buffer, cursor.index)[1]
      line_end_index == IF current_line + 1 < line_count(buffer)
                        THEN line_col_to_char(buffer, current_line + 1, 0)
                        ELSE text_len
      end == find_word_boundaries(buffer, cursor.index)[2]
  IN IF cursor.index >= text_len THEN MkCursor(cursor.index, GoalNone)
     ELSE MkCursor(Min(end, line_end_index), GoalNone)

\* The indices a cursor visits, its starting index included, when
\* move_word_right is called until the cursor is at the end of the buffer
\* (the loop of test_word_movement_example, for any buffer). A cursor that
\* stops moving before the end ends the walk after `calls` calls.
RECURSIVE walk_word_right(_, _, _)
walk_word_right(cursor, buffer, calls) ==
  IF cursor.index >= buffer_len(buffer) \/ calls = 0 THEN <<cursor.index>>
  ELSE <<cursor.index>>
       \o walk_word_right(move_word_right(cursor, buffer), buffer, calls - 1)

\* The same with move_word_left, until the cursor is at index 0.
RECURSIVE walk_word_left(_, _, _)
walk_word_left(cursor, buffer, calls) ==
  IF cursor.index = 0 \/ calls = 0 THEN <<cursor.index>>
  ELSE <<cursor.index>>
       \o walk_word_left(move_word_left(cursor, buffer), buffer, calls - 1)

(***************************************************************************)
(* Selection and Editor                                                    *)
(***************************************************************************)
\* Option<T>: None is << >>, Some(x) is <<x>>.
None == << >>
Some(x) == <<x>>
is_some(o) == o # None
is_none(o) == o = None

\* Selection::new taking equal ends for a reversed selection.
Selection_new_reversed_on_equal(start, end) ==
  [start |-> Min(start, end), end |-> Max(start, end), reversed |-> start >= end]

Selection_new(start, end) ==
  [start |-> Min(start, end), end |-> Max(start, end), reversed |-> start > end]

head(sel) == IF sel.reversed THEN sel.start ELSE sel.end
tail(sel) == IF sel.reversed THEN sel.end ELSE sel.start

MkEditor(buffer, cursor, selection) ==
  [buffer |-> buffer, cursor |-> cursor, selection |-> selection]

Editor_new == MkEditor(buffer_new, cursor_new, None)

\* What a call leaves behind: the editor, the returned value, and whether the
\* call panicked (the editor is then as the panic found it).
Ok(ed, ret) == [ed |-> ed, ret |-> ret, panic |-> FALSE]
Panic(ed) == [ed |-> ed, ret |-> None, panic |-> TRUE]

has_selection(ed) == is_some(ed.selection)

\* Some(<<start, end>>) or None.
selection_range(ed) ==
  IF is_some(ed.selection)
  THEN Some(<<ed.selection[1].start, ed.selection[1].end>>)
  ELSE None

select_range(ed, start, end) ==
  Ok([ed EXCEPT !.selection = Some(Selection_new(start, end))], None)

select_all(ed) ==
  Ok([ed EXCEPT !.selection = Some(Selection_new(0, buffer_len(ed.buffer)))], None)

clear_selection(ed) == Ok([ed EXCEPT !.selection = None], None)

\* get_selected_text taking range.end characters instead of
\* range.end - range.start.
get_selected_text_takes_end(ed) ==
  LET range == selection_range(ed)
      n == Len(ed.buffer)
  IN IF is_some(range)
     THEN Some(Slice(ed.buffer, Min(range[1][1], n), Min(range[1][1] + range[1][2], n)))
     ELSE None

\* text.chars().skip(range.start).take(range.end - range.start)
get_selected_text(ed) ==
  LET range == selection_range(ed)
      n == Len(ed.buffer)
  IN IF is_some(range)
     THEN Some(Slice(ed.buffer, Min(range[1][1], n), Min(range[1][2], n)))
     ELSE None

\* delete_selection leaving the cursor where it was.
delete_selection_keeps_cursor(ed) ==
  LET range == selection_range(ed)
      start == range[1][1]
      len == range[1][2] - range[1][1]
  IN IF is_some(range)
     THEN IF delete_panics(ed.buffer, start, len)
          THEN Panic(ed)
          ELSE Ok(MkEditor(delete(ed.buffer, start, len), ed.cursor, None),
                  get_selected_text(ed))
     ELSE Ok(ed, None)

delete_selection(ed) ==
  LET range == selection_range(ed)
      start == range[1][1]
      len == range[1][2] - range[1][1]
  IN IF is_some(range)
     THEN IF delete_panics(ed.buffer, start, len)
          THEN Panic(ed)
          ELSE Ok(MkEditor(delete(ed.buffer, start, len),
                           MkCursor(start, ed.cursor.goal),
                           None),
                  get_selected_text(ed))
     ELSE Ok(ed, None)

\* insert_char leaving the cursor in front of the inserted character.
insert_char_cursor_stays(ed, ch) ==
  IF insert_panics(ed.buffer, ed.cursor.index)
  THEN Panic(ed)
  ELSE Ok([ed EXCEPT !.buffer = rope_insert(ed.buffer, ed.cursor.index, <<ch>>)],
          None)

\* insert_char advancing the cursor by the bytes of the character.
insert_char_advances_by_bytes(ed, ch) ==
  IF insert_panics(ed.buffer, ed.cursor.index)
  THEN Panic(ed)
  ELSE Ok([ed EXCEPT !.buffer = rope_insert(ed.buffer, ed.cursor.index, <<ch>>),
                     !.cursor.index = ed.cursor.index + len_utf8(ch)],
          None)

insert_char(ed, ch) ==
  IF insert_panics(ed.buffer, ed.cursor.index)
  THEN Panic(ed)
  ELSE Ok([ed EXCEPT !.buffer = rope_insert(ed.buffer, ed.cursor.index, <<ch>>),
                     !.cursor.index = ed.cursor.index + 1],
          None)

\* for ch in text.chars() { self.insert_char(ch); }
RECURSIVE insert_chars(_, _)
insert_chars(ed, text) ==
  IF text = << >> THEN Ok(ed, None)
  ELSE LET r == insert_char(ed, Head(text))
       IN IF r.panic THEN r ELSE insert_chars(r.ed, Tail(text))

replace_selection(ed, replacement) ==
  LET r == IF is_some(selection_range(ed)) THEN delete_selection(ed) ELSE Ok(ed, None)
  IN IF r.panic THEN r ELSE insert_chars(r.ed, replacement)

paste(ed, text) ==
  LET r == IF has_selection(ed) THEN delete_selection(ed) ELSE Ok(ed, None)
  IN IF r.panic THEN r ELSE insert_chars(r.ed, text)

copy(ed) == Ok(ed, get_selected_text(ed))

cut(ed) == delete_selection(ed)

select_word_at(ed, index) ==
  LET b == find_word_boundaries(ed.buffer, index)
  IN select_range(ed, b[1], b[2])

\* select_line_at leaving the line's newline out of the selection.
select_line_at_without_newline(ed, index) ==
  LET ln == char_to_line_col(ed.buffer, index)[1]
      start == line_col_to_char(ed.buffer, ln, 0)
  IN select_range(ed, start, start + line_len_trimmed(ed.buffer, ln))

select_line_at(ed, index) ==
  LET ln == char_to_line_col(ed.buffer, index)[1]
      start == line_col_to_char(ed.buffer, ln, 0)
      end == IF ln + 1 < line_count(ed.buffer)
             THEN line_col_to_char(ed.buffer, ln + 1, 0)
             ELSE buffer_len(ed.buffer)
  IN select_range(ed, start, end)

\* extend_selection rebuilding the selection from its start instead of its
\* tail.
extend_selection_from_start(ed, moved) ==
  LET sel == IF is_none(ed.selection)
             THEN Selection_new(ed.cursor.index, ed.cursor.index)
             ELSE ed.selection[1]
  IN Ok(MkEditor(ed.buffer, moved, Some(Selection_new(sel.start, moved.index))), None)

\* The common body of the extend_selection_* methods: anchor the selection at
\* the cursor when there is none, move the cursor, rebuild the selection from
\* its tail to the cursor.
extend_selection(ed, moved) ==
  LET sel == IF is_none(ed.selection)
             THEN Selection_new(ed.cursor.index, ed.cursor.index)
             ELSE ed.selection[1]
  IN Ok(MkEditor(ed.buffer, moved, Some(Selection_new(tail(sel), moved.index))), None)

extend_selection_left(ed) == extend_selection(ed, move_left(ed.cursor))
extend_selection_right(ed) ==
  extend_selection(ed, move_right(ed.cursor, buffer_len(ed.buffer)))
extend_selection_up(ed) == extend_selection(ed, move_up(ed.cursor, ed.buffer))
extend_selection_down(ed) == extend_selection(ed, move_down(ed.cursor, ed.buffer))
extend_selection_to_line_start(ed) ==
  extend_selection(ed, move_to_line_start(ed.cursor, ed.buffer))
extend_selection_to_line_end(ed) ==
  extend_selection(ed, move_to_line_end(ed.cursor, ed.buffer))
extend_selection_to_buffer_start(ed) ==
  extend_selection(ed, move_to_buffer_start(ed.cursor))
extend_selection_to_buffer_end(ed) ==
  extend_selection(ed, move_to_buffer_end(ed.cursor, ed.buffer))
extend_selection_word_left(ed) ==
  extend_selection(ed, move_word_left(ed.cursor, ed.buffer))
extend_selection_word_right(ed) ==
  extend_selection(ed, move_word_right(ed.cursor, ed.buffer))

\* backspace with the slip of leaving the cursor where it was.
backspace_cursor_stays(ed) ==
  IF ed.cursor.index > 0
  THEN Ok([ed EXCEPT !.buffer = delete(ed.buffer, ed.cursor.index - 1, 1)], None)
  ELSE Ok(ed, None)

\* backspace deleting the character at the cursor instead of the one before
\* it.
backspace_deletes_at_cursor(ed) ==
  IF ed.cursor.index > 0
  THEN Ok([ed EXCEPT !.cursor.index = ed.cursor.index - 1,
                     !.buffer = delete(ed.buffer, ed.cursor.index, 1)],
          None)
  ELSE Ok(ed, None)

backspace(ed) ==
  IF ed.cursor.index > 0
  THEN IF delete_panics(ed.buffer, ed.cursor.index - 1, 1)
       THEN Panic([ed EXCEPT !.cursor.index = ed.cursor.index - 1])
       ELSE Ok([ed EXCEPT !.cursor.index = ed.cursor.index - 1,
                          !.buffer = delete(ed.buffer, ed.cursor.index - 1, 1)],
               None)
  ELSE Ok(ed, None)

\* delete_word clamping to the start of the line at every column.
delete_word_always_clamped(ed) ==
  LET start_index == ed.cursor.index
      lc == char_to_line_col(ed.buffer, start_index)
      line_start == line_col_to_char(ed.buffer, lc[1], 0)
      moved == move_word_left(ed.cursor, ed.buffer)
      end_index == moved.index
      delete_from == Max(end_index, line_start)
      count == start_index - delete_from
  IN IF ed.cursor.index = 0 THEN Ok(ed, None)
     ELSE IF delete_panics(ed.buffer, delete_from, count)
     THEN Panic([ed EXCEPT !.cursor = moved])
     ELSE Ok([ed EXCEPT !.buffer = delete(ed.buffer, delete_from, count),
                        !.cursor = MkCursor(delete_from, moved.goal)],
             None)

\* delete_word deleting back to the start of the line at every column > 0.
delete_word_to_line_start(ed) ==
  LET start_index == ed.cursor.index
      lc == char_to_line_col(ed.buffer, start_index)
      line_start == line_col_to_char(ed.buffer, lc[1], 0)
      moved == move_word_left(ed.cursor, ed.buffer)
      end_index == moved.index
      delete_from == IF lc[2] = 0 THEN end_index ELSE line_start
      count == start_index - delete_from
  IN IF ed.cursor.index = 0 THEN Ok(ed, None)
     ELSE IF delete_panics(ed.buffer, delete_from, count)
     THEN Panic([ed EXCEPT !.cursor = moved])
     ELSE Ok([ed EXCEPT !.buffer = delete(ed.buffer, delete_from, count),
                        !.cursor = MkCursor(delete_from, moved.goal)],
             None)

delete_word(ed) ==
  LET start_index == ed.cursor.index
      lc == char_to_line_col(ed.buffer, start_index)
      line_start == line_col_to_char(ed.buffer, lc[1], 0)
      moved == move_word_left(ed.cursor, ed.buffer)
      end_index == moved.index
      delete_from == IF lc[2] = 0 THEN end_index ELSE Max(end_index, line_start)
      count == start_index - delete_from
  IN IF ed.cursor.index = 0 THEN Ok(ed, None)
     ELSE IF delete_panics(ed.buffer, delete_from, count)
     THEN Panic([ed EXCEPT !.cursor = moved])
     ELSE Ok([ed EXCEPT !.buffer = delete(ed.buffer, delete_from, count),
                        !.cursor = MkCursor(delete_from, moved.goal)],
             None)

\* delete_line counting the line without its line break.
delete_line_keeps_newline(ed) ==
  LET ln == char_to_line_col(ed.buffer, ed.cursor.index)[1]
      line_start == line_col_to_char(ed.buffer, ln, 0)
      line_len == line_len_trimmed(ed.buffer, ln)
  IN IF delete_panics(ed.buffer, line_start, line_len)
     THEN Panic(ed)
     ELSE Ok([ed EXCEPT !.buffer = delete(ed.buffer, line_start, line_len),
                        !.cursor.index = line_start],
             None)

\* delete_line taking the newline in front of the last line with it.
delete_line_joins_last(ed) ==
  LET ln == char_to_line_col(ed.buffer, ed.cursor.index)[1]
      line_start == line_col_to_char(ed.buffer, ln, 0)
      line_content == line(ed.buffer, ln)
      line_len == IF is_some(line_content) THEN Len(line_content[1]) ELSE 0
      from == IF ln + 1 = line_count(ed.buffer) /\ ln > 0
              THEN line_start - 1 ELSE line_start
  IN IF delete_panics(ed.buffer, from, line_len + (line_start - from))
     THEN Panic(ed)
     ELSE Ok([ed EXCEPT !.buffer = delete(ed.buffer, from, line_len + (line_start - from)),
                        !.cursor.index = from],
             None)

delete_line(ed) ==
  LET ln == char_to_line_col(ed.buffer, ed.cursor.index)[1]
      line_start == line_col_to_char(ed.buffer, ln, 0)
      line_content == line(ed.buffer, ln)
      line_len == IF is_some(line_content) THEN Len(line_content[1]) ELSE 0
  IN IF delete_panics(ed.buffer, line_start, line_len)
     THEN Panic(ed)
     ELSE Ok([ed EXCEPT !.buffer = delete(ed.buffer, line_start, line_len),
                        !.cursor.index = line_start],
             None)

(***************************************************************************)
(* LineCache: shaped lines by line index, the buffer version they were     *)
(* shaped for, and the lines marked dirty.  A ShapedLine is modelled by    *)
(* the text it was shaped from.                                            *)
(***************************************************************************)
LineCache_new == [shaped_lines |-> << >>, buffer_version |-> 0, dirty_lines |-> {}]

\* LineCache::get not looking at the dirty lines.
LineCache_get_ignoring_dirty(c, line_idx) ==
  IF line_idx \in DOMAIN c.shaped_lines
  THEN Some(c.shaped_lines[line_idx])
  ELSE None

LineCache_get(c, line_idx) ==
  IF line_idx \in c.dirty_lines
  THEN None
  ELSE IF line_idx \in DOMAIN c.shaped_lines
       THEN Some(c.shaped_lines[line_idx])
       ELSE None

LineCache_insert(c, line_idx, shaped) ==
  [c EXCEPT !.shaped_lines = [i \in DOMAIN @ \cup {line_idx} |->
                                IF i = line_idx THEN shaped ELSE @[i]],
            !.dirty_lines = @ \ {line_idx}]

mark_dirty(c, line_idx) == [c EXCEPT !.dirty_lines = @ \cup {line_idx}]

\* for line_idx in start..=end
mark_dirty_range(c, start, end) == [c EXCEPT !.dirty_lines = @ \cup (start..end)]

LineCache_clear(c) == [c EXCEPT !.shaped_lines = << >>, !.dirty_lines = {}]

\* check_buffer_version returning whether the versions are equal.
check_buffer_version_inverted(c, current_version) ==
  IF c.buffer_version # current_version
  THEN [cache |-> [LineCache_clear(c) EXCEPT !.buffer_version = current_version],
        ret |-> FALSE]
  ELSE [cache |-> c, ret |-> TRUE]

check_buffer_version(c, current_version) ==
  IF c.buffer_version # current_version
  THEN [cache |-> [LineCache_clear(c) EXCEPT !.buffer_version = current_version],
        ret |-> TRUE]
  ELSE [cache |-> c, ret |-> FALSE]

\* The text LineElement shapes for a line: buffer.line(line_idx)
\* .unwrap_or_default().trim_end_matches('\n').
line_text(buffer, line_idx) ==
  LET l == line(buffer, line_idx)
  IN trim_end_matches_nl(IF is_some(l) THEN l[1] ELSE << >>)

\* LineElement::get_or_shape_line of the element of line line_idx over buffer,
\* on the shared cache c: the cache it leaves and the shaped line it returns.
get_or_shape_line(c, buffer, line_idx) ==
  LET current_version == buffer_len(buffer)
      checked == check_buffer_version(c, current_version).cache
      hit == LineCache_get(checked, line_idx)
      shaped == line_text(buffer, line_idx)
  IN IF is_some(hit)
     THEN [cache |-> checked, ret |-> hit[1]]
     ELSE [cache |-> LineCache_insert(checked, line_idx, shaped), ret |-> shaped]

(***************************************************************************)
(* Differ.  A text is a sequence of characters, a line a text.  A DiffLine *)
(* is [line_number, kind, content, is_first_in_group]; char_changes, the   *)
(* ranges highlighted inside a Modified line, are left out: no line        *)
(* number, kind or content depends on them.                                *)
(***************************************************************************)
\* The offset just past the first '\n' of text, 0 if it has none.
first_newline(text) ==
  IF \E i \in 1..Len(text) : text[i] = NL
  THEN CHOOSE i \in 1..Len(text) : text[i] = NL /\ \A j \in 1..(i - 1) : text[j] # NL
  ELSE 0

\* The tokens of TextDiff::from_lines: the lines of text, each with the '\n'
\* that ends it; the last one has none when the text does not end in '\n'.
RECURSIVE from_lines(_)
from_lines(text) ==
  IF text = << >> THEN << >>
  ELSE LET n == first_newline(text)
       IN IF n = 0 THEN <<text>>
          ELSE <<SubSeq(text, 1, n)>> \o from_lines(SubSeq(text, n + 1, Len(text)))

\* str::lines in the place of split('\n'): no empty piece after a final '\n'.
RECURSIVE split_newline_as_lines(_)
split_newline_as_lines(text) ==
  LET n == first_newline(text)
  IN IF n = 0 THEN <<text>>
     ELSE IF n = Len(text) THEN <<SubSeq(text, 1, n - 1)>>
     ELSE <<SubSeq(text, 1, n - 1)>>
          \o split_newline_as_lines(SubSeq(text, n + 1, Len(text)))

\* modified.split('\n'): the pieces between the '\n's, an empty one after a
\* final '\n'; the empty text has the one piece "".
RECURSIVE split_newline(_)
split_newline(text) ==
  LET n == first_newline(text)
  IN IF n = 0 THEN <<text>>
     ELSE <<SubSeq(text, 1, n - 1)>> \o split_newline(SubSeq(text, n + 1, Len(text)))

Change(tag, value) == [tag |-> tag, value |-> value]

\* Change::to_string: the token, with a '\n' added when it has none
\* (missing_newline).
to_string(change) ==
  IF Len(change.value) > 0 /\ change.value[Len(change.value)] = NL
  THEN change.value
  ELSE change.value \o <<NL>>

\* The length of the longest common subsequence of two token lists.
RECURSIVE lcs_len(_, _)
lcs_len(old, new) ==
  IF old = << >> \/ new = << >> THEN 0
  ELSE IF Head(old) = Head(new) THEN 1 + lcs_len(Tail(old), Tail(new))
  ELSE Max(lcs_len(Tail(old), new), lcs_len(old, Tail(new)))

\* The shortest edit scripts that turn the tokens old into the tokens new:
\* Equal for a token of both, Delete for one of old, Insert for one of new,
\* with as many Equals as the longest common subsequence has tokens.
\* Between two Equals the Deletes are put before the Inserts; compute_diff
\* collects them in two lists, so their interleaving does not reach its
\* result.
RECURSIVE edit_scripts(_, _, _)
edit_scripts(old, new, after_insert) ==
  IF old = << >> /\ new = << >> THEN {<< >>}
  ELSE LET longest == lcs_len(old, new)
       IN (IF old # << >> /\ new # << >> /\ Head(old) = Head(new)
           THEN {<<Change("Equal", Head(new))>> \o s :
                   s \in edit_scripts(Tail(old), Tail(new), FALSE)}
           ELSE {})
          \cup
          (IF old # << >> /\ ~after_insert /\ lcs_len(Tail(old), new) = longest
           THEN {<<Change("Delete", Head(old))>> \o s :
                   s \in edit_scripts(Tail(old), new, FALSE)}
           ELSE {})
          \cup
          (IF new # << >> /\ lcs_len(old, Tail(new)) = longest
           THEN {<<Change("Insert", Head(new))>> \o s :
                   s \in edit_scripts(old, Tail(new), TRUE)}
           ELSE {})

\* TextDiff::from_lines(original, modified).iter_all_changes(): a shortest
\* edit script (Myers).  Which of several shortest scripts the library
\* returns is not modelled: each of them is a possible value.
iter_all_changes(original, modified) ==
  edit_scripts(from_lines(original), from_lines(modified), FALSE)

\* str::trim: white space removed at both ends.
RECURSIVE trim(_)
trim(s) ==
  IF s = << >> THEN s
  ELSE IF is_whitespace(Head(s)) THEN trim(Tail(s))
  ELSE IF is_whitespace(s[Len(s)]) THEN trim(SubSeq(s, 1, Len(s) - 1))
  ELSE s

\* A similarity is the fraction <<numerator, denominator>>.
MinSimilarity == <<3, 10>>
Greater(x, y) == x[1] * y[2] > y[1] * x[2]

calculate_similarity(a, b) ==
  LET a_chars == trim(a)
      b_chars == trim(b)
      min_len == Min(Len(a_chars), Len(b_chars))
      max_len == Max(Len(a_chars), Len(b_chars))
      common_chars == Cardinality({i \in 1..min_len : a_chars[i] = b_chars[i]})
  IN IF a_chars = b_chars THEN <<1, 1>>
     ELSE IF a_chars = << >> \/ b_chars = << >> THEN <<0, 1>>
     ELSE <<common_chars, max_len>>

\* The inner loop of flush_pending over the added lines from j on: the
\* first unprocessed added line of the greatest similarity above the
\* threshold, if any.
RECURSIVE best_match(_, _, _, _, _, _)
best_match(removed, adds, processed_adds, j, best_match_idx, best_similarity) ==
  IF j > Len(adds) THEN best_match_idx
  ELSE IF j \in processed_adds
  THEN best_match(removed, adds, processed_adds, j + 1, best_match_idx, best_similarity)
  ELSE LET similarity == calculate_similarity(removed, adds[j])
       IN IF Greater(similarity, best_similarity)
          THEN best_match(removed, adds, processed_adds, j + 1, Some(j), similarity)
          ELSE best_match(removed, adds, processed_adds, j + 1,
                          best_match_idx, best_similarity)

\* The outer loop of flush_pending over the removed lines from i on:
\* matched_pairs.
RECURSIVE matched_pairs(_, _, _, _)
matched_pairs(removes, adds, i, processed_adds) ==
  IF i > Len(removes) THEN << >>
  ELSE LET found == best_match(removes[i], adds, processed_adds, 1, None, MinSimilarity)
       IN IF is_some(found)
          THEN <<<<i, found[1]>>>>
               \o matched_pairs(removes, adds, i + 1, processed_adds \cup {found[1]})
          ELSE matched_pairs(removes, adds, i + 1, processed_adds)

DiffLine(line_number, kind, content, is_first_in_group) ==
  [line_number |-> line_number, kind |-> kind, content |-> content,
   is_first_in_group |-> is_first_in_group]

\* The lines pushed for a block shown as removes then adds.
removes_then_adds(line_number, removes, adds) ==
  [i \in 1..Len(removes) |-> DiffLine(0, "Removed", removes[i], i = 1)]
  \o [j \in 1..Len(adds) |-> DiffLine(line_number + j, "Added", adds[j], j = 1)]

\* The lines pushed for a block shown as modifications, pair by pair.
modifications(line_number, removes, adds, pairs) ==
  [n \in 1..(2 * Len(pairs)) |->
     LET p == (n + 1) \div 2
     IN IF n % 2 = 1
        THEN DiffLine(0, "Modified", removes[pairs[p][1]], p = 1)
        ELSE DiffLine(line_number + p, "Modified", adds[pairs[p][2]], FALSE)]

\* Differ::flush_pending: the result and line_number it leaves (the pending
\* lists are left empty).
flush_pending(result, line_number, pending_removes, pending_adds) ==
  LET remove_count == Len(pending_removes)
      add_count == Len(pending_adds)
  IN IF remove_count > 0 /\ add_count > 0
     THEN LET pairs == matched_pairs(pending_removes, pending_adds, 1, {})
              all_matched == Len(pairs) = remove_count /\ Len(pairs) = add_count
          IN IF all_matched
             THEN [result |-> result \o modifications(line_number, pending_removes,
                                                       pending_adds, pairs),
                   line_number |-> line_number + Len(pairs)]
             ELSE [result |-> result \o removes_then_adds(line_number, pending_removes,
                                                           pending_adds),
                   line_number |-> line_number + add_count]
     ELSE [result |-> result \o removes_then_adds(line_number, pending_removes,
                                                   pending_adds),
           line_number |-> line_number + add_count]

\* The loop of compute_diff over the changes, the flush after it included.
RECURSIVE all_changes(_, _, _, _, _)
all_changes(changes, result, line_number, pending_removes, pending_adds) ==
  IF changes = << >>
  THEN flush_pending(result, line_number, pending_removes, pending_adds)
  ELSE LET change == Head(changes)
       IN IF change.tag = "Equal"
          THEN LET f == flush_pending(result, line_number, pending_removes, pending_adds)
               IN all_changes(Tail(changes),
                              Append(f.result,
                                     DiffLine(f.line_number + 1, "Unchanged",
                                              to_string(change), FALSE)),
                              f.line_number + 1, << >>, << >>)
          ELSE IF change.tag = "Delete"
          THEN all_changes(Tail(changes), result, line_number,
                           Append(pending_removes, to_string(change)), pending_adds)
          ELSE all_changes(Tail(changes), result, line_number,
                           pending_removes, Append(pending_adds, to_string(change)))

\* Differ::compute_diff, for the changes the TextDiff iterates over.
compute_diff(original, modified, changes) ==
  LET f == all_changes(changes, << >>, 0, << >>, << >>)
      modified_lines == split_newline(modified)
      modified_line_count == Len(modified_lines)
  IN IF f.line_number < modified_line_count
     THEN f.result
          \o [n \in 1..(modified_line_count - f.line_number) |->
                DiffLine(f.line_number + n, "Unchanged",
                         modified_lines[f.line_number + n] \o <<NL>>, FALSE)]
     ELSE f.result

(***************************************************************************)
(* DiffEditorView: an Editor and the view's own selection (selection_start, *)
(* selection_end, is_selecting; the Editor's selection is never set).  A   *)
(* method takes the Editor ed and the view's fields vw and gives the two   *)
(* as it leaves them, or a panic.                                          *)
(***************************************************************************)
View_new == [selection_start |-> None, selection_end |-> None, is_selecting |-> FALSE]

VOk(ed, vw) == [ed |-> ed, view |-> vw, panic |-> FALSE]
VPanic(ed, vw) == [ed |-> ed, view |-> vw, panic |-> TRUE]

\* The view going on after a method of its Editor.
OfEditor(r, vw) == [ed |-> r.ed, view |-> vw, panic |-> r.panic]

get_selection_range(vw) ==
  IF /\ is_some(vw.selection_start)
     /\ is_some(vw.selection_end)
     /\ vw.selection_start[1] # vw.selection_end[1]
  THEN Some([start |-> Min(vw.selection_start[1], vw.selection_end[1]),
             end |-> Max(vw.selection_start[1], vw.selection_end[1])])
  ELSE None

view_select_word_at(ed, index) == find_word_boundaries(ed.buffer, index)

view_select_line_at(ed, index) ==
  LET ln == char_to_line_col(ed.buffer, index)[1]
      start == line_col_to_char(ed.buffer, ln, 0)
      end == IF ln + 1 < line_count(ed.buffer)
             THEN line_col_to_char(ed.buffer, ln + 1, 0)
             ELSE buffer_len(ed.buffer)
  IN <<start, end>>

view_clear_selection(vw) ==
  [vw EXCEPT !.selection_start = None, !.selection_end = None, !.is_selecting = FALSE]

view_delete_selection(ed, vw) ==
  LET range == get_selection_range(vw)
  IN IF is_some(range)
     THEN LET len == range[1].end - range[1].start
          IN IF delete_panics(ed.buffer, range[1].start, len)
             THEN VPanic(ed, vw)
             ELSE VOk([ed EXCEPT !.buffer = delete(ed.buffer, range[1].start, len),
                                 !.cursor.index = range[1].start],
                      view_clear_selection(vw))
     ELSE VOk(ed, vw)

\* The selected characters go to the clipboard, which is not part of the
\* view: substring_chars skips and takes, and so reads no character that is
\* not there.
copy_selection(ed, vw) == VOk(ed, vw)

cut_selection(ed, vw) ==
  IF is_some(get_selection_range(vw)) THEN view_delete_selection(ed, vw) ELSE VOk(ed, vw)

\* clipboard: the text of the clipboard's item, None without one.
paste_from_clipboard(ed, vw, clipboard) ==
  IF is_some(clipboard)
  THEN LET d == view_delete_selection(ed, vw)
           cursor_pos == d.ed.cursor.index
       IN IF d.panic THEN d
          ELSE IF insert_panics(d.ed.buffer, cursor_pos) THEN VPanic(d.ed, d.view)
          ELSE VOk([d.ed EXCEPT !.buffer = insert(d.ed.buffer, cursor_pos, clipboard[1]),
                                !.cursor.index = cursor_pos + Len(clipboard[1])],
                   d.view)
  ELSE VOk(ed, vw)

all_selection(ed, vw) ==
  VOk([ed EXCEPT !.cursor.index = buffer_len(ed.buffer)],
      [vw EXCEPT !.selection_start = Some(0),
                 !.selection_end = Some(buffer_len(ed.buffer))])

\* The view's extend_selection_* methods: moved is the cursor after the
\* method's Cursor movement.
view_extend_selection(ed, vw, moved) ==
  VOk([ed EXCEPT !.cursor = moved],
      [vw EXCEPT !.selection_start = IF is_none(get_selection_range(vw))
                                     THEN Some(ed.cursor.index)
                                     ELSE @,
                 !.selection_end = Some(moved.index)])

\* The cursor after the movement an arrow key stands for with these
\* modifiers.
arrow_move(ed, key, cmd_pressed, opt_pressed) ==
  CASE key = "up" -> IF cmd_pressed THEN move_to_buffer_start(ed.cursor)
                     ELSE move_up(ed.cursor, ed.buffer)
    [] key = "down" -> IF cmd_pressed THEN move_to_buffer_end(ed.cursor, ed.buffer)
                       ELSE move_down(ed.cursor, ed.buffer)
    [] key = "left" -> IF cmd_pressed THEN move_to_line_start(ed.cursor, ed.buffer)
                       ELSE IF opt_pressed THEN move_word_left(ed.cursor, ed.buffer)
                       ELSE move_left(ed.cursor)
    [] key = "right" -> IF cmd_pressed THEN move_to_line_end(ed.cursor, ed.buffer)
                        ELSE IF opt_pressed THEN move_word_right(ed.cursor, ed.buffer)
                        ELSE move_right(ed.cursor, buffer_len(ed.buffer))

\* self.delete_selection(); self.editor.insert_char(ch);
type_char(ed, vw, ch) ==
  LET d == view_delete_selection(ed, vw)
  IN IF d.panic THEN d ELSE OfEditor(insert_char(d.ed, ch), d.view)

\* The character a key that is none of the named ones inserts.
key_char(key) == key

ArrowKeys == {"up", "down", "left", "right"}

on_key_down(ed, vw, key, shift_pressed, cmd_pressed, opt_pressed, clipboard) ==
  IF cmd_pressed /\ ~shift_pressed /\ ~opt_pressed /\ key \in {"c", "x", "v", "a"}
  THEN CASE key = "c" -> copy_selection(ed, vw)
         [] key = "x" -> cut_selection(ed, vw)
         [] key = "v" -> paste_from_clipboard(ed, vw, clipboard)
         [] key = "a" -> all_selection(ed, vw)
  ELSE CASE key = "enter" -> type_char(ed, vw, NL)
         [] key = "backspace" ->
              IF is_some(get_selection_range(vw)) THEN view_delete_selection(ed, vw)
              ELSE IF cmd_pressed THEN OfEditor(delete_line(ed), vw)
              ELSE IF opt_pressed THEN OfEditor(delete_word(ed), vw)
              ELSE OfEditor(backspace(ed), vw)
         [] key = "space" -> type_char(ed, vw, " ")
         [] key \in ArrowKeys ->
              IF shift_pressed
              THEN view_extend_selection(ed, vw, arrow_move(ed, key, cmd_pressed, opt_pressed))
              ELSE VOk([ed EXCEPT !.cursor = arrow_move(ed, key, cmd_pressed, opt_pressed)],
                       view_clear_selection(vw))
         [] OTHER -> type_char(ed, vw, key_char(key))

\* index: what calculate_index_from_position makes of the event's position,
\* an offset up to buffer.len().
on_mouse_down(ed, vw, index, click_count) ==
  CASE click_count = 1 ->
         VOk([ed EXCEPT !.cursor.index = index],
             [vw EXCEPT !.is_selecting = TRUE,
                        !.selection_start = Some(index),
                        !.selection_end = Some(index)])
    [] click_count = 2 ->
         LET w == view_select_word_at(ed, index)
         IN VOk([ed EXCEPT !.cursor.index = w[2]],
                [vw EXCEPT !.selection_start = Some(w[1]),
                           !.selection_end = Some(w[2]),
                           !.is_selecting = FALSE])
    [] click_count = 3 ->
         LET l == view_select_line_at(ed, index)
         IN VOk([ed EXCEPT !.cursor.index = l[2]],
                [vw EXCEPT !.selection_start = Some(l[1]),
                           !.selection_end = Some(l[2]),
                           !.is_selecting = FALSE])
    [] OTHER -> VOk(ed, vw)

on_mouse_move(ed, vw, index, left_pressed) ==
  IF vw.is_selecting \/ left_pressed
  THEN VOk([ed EXCEPT !.cursor.index = index], [vw EXCEPT !.selection_end = Some(index)])
  ELSE VOk(ed, vw)

on_mouse_up(ed, vw) == VOk(ed, [vw EXCEPT !.is_selecting = FALSE])

(***************************************************************************)
(* The state machine: one Editor, driven by its methods and by the Cursor  *)
(* movement methods called on editor.cursor with editor.buffer.            *)
(***************************************************************************)
VARIABLES
  editor,     \* the Editor: buffer, cursor {index, goal}, selection
  panicked,   \* a call has panicked; nothing runs after it
  lastOp,     \* the method that has just returned; Idle once its caller goes on
  args,       \* the arguments of that call; for a Cursor method, the cursor
              \* it was called on
  ret,        \* what that call returned
  runCol,     \* the column at which the current run of vertical moves started
              \* from goal None; NoRun outside such a run
  pre,        \* the Editor as it was when that call started (for a method
              \* of LineCache, the LineCache)
  anchor,     \* the cursor offset at which the current run of
              \* extend_selection_* calls started with no selection; NoRun
              \* outside such a run
  loop,       \* the method a caller calls over and over, with the buffer
              \* and cursor offset it started from; NoLoop without one
  cache,      \* the LineCache shared by the LineElements
  differ,     \* the Differ's original text, the modified text handed to
              \* compute_diff and the lines it returned; NoDiffer without one
  view        \* the DiffEditorView's own selection_start, selection_end
              \* and is_selecting (its Editor is editor); NoView without one

vars == <<editor, panicked, lastOp, args, ret, runCol, pre, anchor,
          loop, cache, differ, view>>

Idle == "idle"
NoRun == 0 - 1
NoLoop == << >>
NoDiffer == << >>
NoView == << >>

\* The Editor on its own: no caller's loop, no Differ, no DiffEditorView, and
\* a LineCache nothing is put into.
EditorAlone ==
  /\ loop = NoLoop
  /\ cache = LineCache_new
  /\ differ = NoDiffer
  /\ view = NoView

\* The methods that call Cursor::move_up or Cursor::move_down.
VerticalOps == {"move_up", "move_down", "extend_selection_up", "extend_selection_down"}

CurLineCol == char_to_line_col(editor.buffer, editor.cursor.index)

\* runCol after a call of op: a vertical move from goal None starts a run at
\* the cursor's column, a vertical move from a goal continues the run it is
\* in (if any), every other call ends the run.
NextRunCol(op) ==
  IF op \in VerticalOps
  THEN IF editor.cursor.goal = GoalNone THEN CurLineCol[2] ELSE runCol
  ELSE NoRun

\* The extend_selection_* methods.
ExtendOps ==
  {"extend_selection_left", "extend_selection_right", "extend_selection_up",
   "extend_selection_down", "extend_selection_to_line_start",
   "extend_selection_to_line_end", "extend_selection_to_buffer_start",
   "extend_selection_to_buffer_end", "extend_selection_word_left",
   "extend_selection_word_right"}

\* anchor after a call of op: an extend_selection_* call with no selection
\* starts a run at the cursor's offset, one with a selection continues the
\* run it is in (if any), every other call ends the run.
NextAnchor(op) ==
  IF op \in ExtendOps
  THEN IF is_none(editor.selection) THEN editor.cursor.index ELSE anchor
  ELSE NoRun

\* A call op(a) that leaves r. Calls follow one another: the next one starts
\* when the caller has taken what the last one returned.
Step(op, a, r) ==
  /\ ~panicked
  /\ lastOp = Idle
  /\ editor' = r.ed
  /\ panicked' = r.panic
  /\ ret' = r.ret
  /\ lastOp' = op
  /\ args' = a
  /\ runCol' = NextRunCol(op)
  /\ pre' = editor
  /\ anchor' = NextAnchor(op)
  /\ UNCHANGED <<loop, cache, differ, view>>

\* The caller takes the returned value and goes on; the editor is untouched.
Return ==
  /\ ~panicked
  /\ lastOp # Idle
  /\ lastOp' = Idle
  /\ args' = << >>
  /\ ret' = None
  /\ pre' = editor
  /\ UNCHANGED <<editor, panicked, runCol, anchor, loop, cache, differ, view>>

\* A Cursor method called on editor.cursor.
CursorStep(op, moved) ==
  Step(op, <<editor.cursor>>, Ok([editor EXCEPT !.cursor = moved], None))

Offsets == 0..Len(editor.buffer)

\* The texts handed to paste and replace_selection: none, one character, two
\* characters ending a line.
PasteTexts == {<< >>, <<".">>, <<"a", NL>>}

Init ==
  /\ editor = Editor_new
  /\ panicked = FALSE
  /\ lastOp = Idle
  /\ args = << >>
  /\ ret = None
  /\ runCol = NoRun
  /\ pre = editor
  /\ anchor = NoRun
  /\ EditorAlone

InsertChar ==
  \E ch \in Alphabet :
    /\ Len(editor.buffer) < MaxLen
    /\ Step("insert_char", <<ch>>, insert_char(editor, ch))

Backspace == Step("backspace", << >>, backspace(editor))

DeleteWord == Step("delete_word", << >>, delete_word(editor))

DeleteLine == Step("delete_line", << >>, delete_line(editor))

SelectRange ==
  \E start \in Offsets, end \in Offsets :
    Step("select_range", <<start, end>>, select_range(editor, start, end))

SelectAll == Step("select_all", << >>, select_all(editor))

ClearSelection == Step("clear_selection", << >>, clear_selection(editor))

SelectWordAt ==
  \E index \in Offsets : Step("select_word_at", <<index>>, select_word_at(editor, index))

SelectLineAt ==
  \E index \in Offsets : Step("select_line_at", <<index>>, select_line_at(editor, index))

ExtendSelectionLeft == Step("extend_selection_left", << >>, extend_selection_left(editor))
ExtendSelectionRight == Step("extend_selection_right", << >>, extend_selection_right(editor))
ExtendSelectionUp == Step("extend_selection_up", << >>, extend_selection_up(editor))
ExtendSelectionDown == Step("extend_selection_down", << >>, extend_selection_down(editor))
ExtendSelectionToLineStart ==
  Step("extend_selection_to_line_start", << >>, extend_selection_to_line_start(editor))
ExtendSelectionToLineEnd ==
  Step("extend_selection_to_line_end", << >>, extend_selection_to_line_end(editor))
ExtendSelectionToBufferStart ==
  Step("extend_selection_to_buffer_start", << >>, extend_selection_to_buffer_start(editor))
ExtendSelectionToBufferEnd ==
  Step("extend_selection_to_buffer_end", << >>, extend_selection_to_buffer_end(editor))
ExtendSelectionWordLeft ==
  Step("extend_selection_word_left", << >>, extend_selection_word_left(editor))
ExtendSelectionWordRight ==
  Step("extend_selection_word_right", << >>, extend_selection_word_right(editor))

DeleteSelection == Step("delete_selection", << >>, delete_selection(editor))

Cut == Step("cut", << >>, cut(editor))

Copy == Step("copy", << >>, copy(editor))

Paste ==
  \E text \in PasteTexts :
    LET r == paste(editor, text)
    IN /\ Len(r.ed.buffer) <= MaxLen
       /\ Step("paste", <<text>>, r)

ReplaceSelection ==
  \E text \in PasteTexts :
    LET r == replace_selection(editor, text)
    IN /\ Len(r.ed.buffer) <= MaxLen
       /\ Step("replace_selection", <<text>>, r)

MoveLeft == CursorStep("move_left", move_left(editor.cursor))
MoveRight == CursorStep("move_right", move_right(editor.cursor, buffer_len(editor.buffer)))
MoveUp == CursorStep("move_up", move_up(editor.cursor, editor.buffer))
MoveDown == CursorStep("move_down", move_down(editor.cursor, editor.buffer))
MoveToLineStart ==
  CursorStep("move_to_line_start", move_to_line_start(editor.cursor, editor.buffer))
MoveToLineEnd ==
  CursorStep("move_to_line_end", move_to_line_end(editor.cursor, editor.buffer))
MoveToBufferStart == CursorStep("move_to_buffer_start", move_to_buffer_start(editor.cursor))
MoveToBufferEnd ==
  CursorStep("move_to_buffer_end", move_to_buffer_end(editor.cursor, editor.buffer))
MoveWordLeft == CursorStep("move_word_left", move_word_left(editor.cursor, editor.buffer))
MoveWordRight ==
  CursorStep("move_word_right", move_word_right(editor.cursor, editor.buffer))

CursorNext ==
  \/ MoveLeft
  \/ MoveRight
  \/ MoveUp
  \/ MoveDown
  \/ MoveToLineStart
  \/ MoveToLineEnd
  \/ MoveToBufferStart
  \/ MoveToBufferEnd
  \/ MoveWordLeft
  \/ MoveWordRight

Next ==
  \/ InsertChar
  \/ Backspace
  \/ DeleteWord
  \/ DeleteLine
  \/ SelectRange
  \/ SelectAll
  \/ ClearSelection
  \/ SelectWordAt
  \/ SelectLineAt
  \/ ExtendSelectionLeft
  \/ ExtendSelectionRight
  \/ ExtendSelectionUp
  \/ ExtendSelectionDown
  \/ ExtendSelectionToLineStart
  \/ ExtendSelectionToLineEnd
  \/ ExtendSelectionToBufferStart
  \/ ExtendSelectionToBufferEnd
  \/ ExtendSelectionWordLeft
  \/ ExtendSelectionWordRight
  \/ DeleteSelection
  \/ Cut
  \/ Copy
  \/ Paste
  \/ ReplaceSelection
  \/ CursorNext
  \/ Return

Spec == Init /\ [][Next]_vars

(***************************************************************************)
(* A Cursor over a TextBuffer of any content (as the cursor crate's tests  *)
(* build it: a buffer filled by insert, a Cursor whose index is set), driven*)
(* by the Cursor movement methods alone.                                    *)
(***************************************************************************)
InitCursor ==
  /\ \E buffer \in SeqsUpTo(MaxBuf) :
       \E index \in 0..Len(buffer) :
         editor = MkEditor(buffer, MkCursor(index, GoalNone), None)
  /\ panicked = FALSE
  /\ lastOp = Idle
  /\ args = << >>
  /\ ret = None
  /\ runCol = NoRun
  /\ pre = editor
  /\ anchor = NoRun
  /\ EditorAlone

NextCursor == CursorNext \/ Return

SpecCursor == InitCursor /\ [][NextCursor]_vars

(***************************************************************************)
(* A TextBuffer of any content, queried: the pure functions of TextBuffer  *)
(* and Cursor::find_word_boundaries, called with every argument up to one  *)
(* past the buffer's end.                                                  *)
(***************************************************************************)
InitText ==
  /\ \E buffer \in SeqsUpTo(MaxBuf) : editor = MkEditor(buffer, cursor_new, None)
  /\ panicked = FALSE
  /\ lastOp = Idle
  /\ args = << >>
  /\ ret = None
  /\ runCol = NoRun
  /\ pre = editor
  /\ anchor = NoRun
  /\ EditorAlone

\* Arguments: the offsets of the buffer and one past its end.
Positions == 0..(Len(editor.buffer) + 1)

CallCharToLineCol ==
  \E char_idx \in Positions :
    Step("char_to_line_col", <<char_idx>>,
         Ok(editor, char_to_line_col(editor.buffer, char_idx)))

CallLineColToChar ==
  \E ln \in 0..line_count(editor.buffer), col \in Positions :
    Step("line_col_to_char", <<ln, col>>,
         Ok(editor, <<line_col_to_char(editor.buffer, ln, col)>>))

CallFindWordBoundaries ==
  \E position \in Positions :
    Step("find_word_boundaries", <<position>>,
         Ok(editor, find_word_boundaries(editor.buffer, position)))

\* A cursor walked word by word from the start of the buffer to its end,
\* and another one from the end to the start; each needs at most one call
\* per character.
CallWalkWords ==
  LET buffer == editor.buffer
      n == buffer_len(buffer)
  IN Step("walk_words", << >>,
          Ok(editor, <<walk_word_right(cursor_new, buffer, n),
                       walk_word_left(MkCursor(n, GoalNone), buffer, n)>>))

NextText ==
  \/ CallCharToLineCol
  \/ CallLineColToChar
  \/ CallFindWordBoundaries
  \/ CallWalkWords
  \/ Return

SpecText == InitText /\ [][NextText]_vars

(***************************************************************************)
(* An Editor holding any text, the cursor anywhere in it and nothing       *)
(* selected (as the editor crate's tests build it, by insert_char and by   *)
(* setting cursor.index), edited at the cursor: insert_char with every      *)
(* class of character and a four-byte one, backspace, delete_word,         *)
(* delete_line.                                                            *)
(***************************************************************************)
InitEdit ==
  /\ \E buffer \in SeqsUpTo(MaxBuf) :
       \E index \in 0..Len(buffer) :
         editor = MkEditor(buffer, MkCursor(index, GoalNone), None)
  /\ panicked = FALSE
  /\ lastOp = Idle
  /\ args = << >>
  /\ ret = None
  /\ runCol = NoRun
  /\ pre = editor
  /\ anchor = NoRun
  /\ EditorAlone

InsertAnyChar ==
  \E ch \in Alphabet \cup {Globe} :
    /\ Len(editor.buffer) < MaxBuf
    /\ Step("insert_char", <<ch>>, insert_char(editor, ch))

\* editor.insert_char(ch); editor.backspace();
insert_char_then_backspace(ed, ch) ==
  LET r == insert_char(ed, ch)
  IN IF r.panic THEN r ELSE backspace(r.ed)

InsertCharThenBackspace ==
  \E ch \in Alphabet \cup {Globe} :
    Step("insert_char; backspace", <<ch>>, insert_char_then_backspace(editor, ch))

NextEdit ==
  \/ InsertAnyChar
  \/ InsertCharThenBackspace
  \/ Backspace
  \/ DeleteWord
  \/ DeleteLine
  \/ Return

SpecEdit == InitEdit /\ [][NextEdit]_vars

(***************************************************************************)
(* An Editor holding any text, the cursor anywhere in it and nothing       *)
(* selected, on which the selection is extended from the cursor and        *)
(* cleared.                                                                *)
(***************************************************************************)
InitExtend ==
  /\ \E buffer \in SeqsUpTo(MaxSel) :
       \E index \in 0..Len(buffer) :
         editor = MkEditor(buffer, MkCursor(index, GoalNone), None)
  /\ panicked = FALSE
  /\ lastOp = Idle
  /\ args = << >>
  /\ ret = None
  /\ runCol = NoRun
  /\ pre = editor
  /\ anchor = NoRun
  /\ EditorAlone

NextExtend ==
  \/ ExtendSelectionLeft
  \/ ExtendSelectionRight
  \/ ExtendSelectionUp
  \/ ExtendSelectionDown
  \/ ExtendSelectionToLineStart
  \/ ExtendSelectionToLineEnd
  \/ ExtendSelectionToBufferStart
  \/ ExtendSelectionToBufferEnd
  \/ ExtendSelectionWordLeft
  \/ ExtendSelectionWordRight
  \/ ClearSelection
  \/ Return

SpecExtend == InitExtend /\ [][NextExtend]_vars

(***************************************************************************)
(* An Editor holding any text, the cursor anywhere in it and nothing       *)
(* selected, on which ranges are selected and the selection is read,       *)
(* deleted and replaced.                                                   *)
(***************************************************************************)
InitClip ==
  /\ \E buffer \in SeqsUpTo(MaxSel) :
       \E index \in 0..Len(buffer) :
         editor = MkEditor(buffer, MkCursor(index, GoalNone), None)
  /\ panicked = FALSE
  /\ lastOp = Idle
  /\ args = << >>
  /\ ret = None
  /\ runCol = NoRun
  /\ pre = editor
  /\ anchor = NoRun
  /\ EditorAlone

GetSelectedText ==
  Step("get_selected_text", << >>, Ok(editor, get_selected_text(editor)))

PasteInto ==
  \E text \in PasteTexts :
    LET r == paste(editor, text)
    IN /\ Len(r.ed.buffer) <= MaxSel
       /\ Step("paste", <<text>>, r)

ReplaceSelectionIn ==
  \E text \in PasteTexts :
    LET r == replace_selection(editor, text)
    IN /\ Len(r.ed.buffer) <= MaxSel
       /\ Step("replace_selection", <<text>>, r)

SelectWordAtPosition ==
  \E index \in Positions :
    Step("select_word_at", <<index>>, select_word_at(editor, index))

SelectLineAtPosition ==
  \E index \in Positions :
    Step("select_line_at", <<index>>, select_line_at(editor, index))

NextClip ==
  \/ SelectRange
  \/ SelectAll
  \/ SelectWordAtPosition
  \/ SelectLineAtPosition
  \/ ClearSelection
  \/ GetSelectedText
  \/ Copy
  \/ Cut
  \/ DeleteSelection
  \/ PasteInto
  \/ ReplaceSelectionIn
  \/ Return

SpecClip == InitClip /\ [][NextClip]_vars

(***************************************************************************)
(* A caller's loop: one of move_word_right, move_word_left and delete_word *)
(* called over and over on an Editor of any content and cursor, as in      *)
(* test_word_movement_example and test_complex_delete_word_workflow.  The  *)
(* caller never stops calling, which is the fairness of SpecLoop.          *)
(***************************************************************************)
LoopOps == {"move_word_right", "move_word_left", "delete_word"}

InitLoop ==
  /\ \E buffer \in SeqsUpTo(MaxSel) :
       \E index \in 0..Len(buffer) :
         \E op \in LoopOps :
           /\ editor = MkEditor(buffer, MkCursor(index, GoalNone), None)
           /\ loop = [op |-> op, buffer |-> buffer, index |-> index]
  /\ panicked = FALSE
  /\ lastOp = Idle
  /\ args = << >>
  /\ ret = None
  /\ runCol = NoRun
  /\ pre = editor
  /\ anchor = NoRun
  /\ cache = LineCache_new
  /\ differ = NoDiffer
  /\ view = NoView

LoopMoveWordRight == loop.op = "move_word_right" /\ MoveWordRight
LoopMoveWordLeft == loop.op = "move_word_left" /\ MoveWordLeft
LoopDeleteWord == loop.op = "delete_word" /\ DeleteWord

NextLoop ==
  \/ LoopMoveWordRight
  \/ LoopMoveWordLeft
  \/ LoopDeleteWord
  \/ Return

SpecLoop == InitLoop /\ [][NextLoop]_vars /\ WF_vars(NextLoop)

(***************************************************************************)
(* A LineCache from LineCache::new on, driven by its methods with every    *)
(* line index, shaped line and buffer version.                             *)
(***************************************************************************)
Lines == 0..MaxLine
Versions == 0..MaxVersion

\* The shaped lines put into the cache, each the text it was shaped from.
Shapes == {<<"a">>, <<".">>}

InitCache ==
  /\ editor = Editor_new
  /\ panicked = FALSE
  /\ lastOp = Idle
  /\ args = << >>
  /\ ret = None
  /\ runCol = NoRun
  /\ pre = editor
  /\ anchor = NoRun
  /\ loop = NoLoop
  /\ cache = LineCache_new
  /\ differ = NoDiffer
  /\ view = NoView

\* A call of a LineCache method: c is the cache it leaves, r what it returns.
CacheStep(op, a, c, r) ==
  /\ ~panicked
  /\ lastOp = Idle
  /\ cache' = c
  /\ ret' = r
  /\ lastOp' = op
  /\ args' = a
  /\ pre' = cache
  /\ UNCHANGED <<editor, panicked, runCol, anchor, loop, differ, view>>

CacheGet ==
  \E line_idx \in Lines :
    CacheStep("get", <<line_idx>>, cache, LineCache_get(cache, line_idx))

CacheInsert ==
  \E line_idx \in Lines, shaped \in Shapes :
    CacheStep("insert", <<line_idx, shaped>>,
              LineCache_insert(cache, line_idx, shaped), None)

MarkDirty ==
  \E line_idx \in Lines :
    CacheStep("mark_dirty", <<line_idx>>, mark_dirty(cache, line_idx), None)

MarkDirtyRange ==
  \E start \in Lines, end \in Lines :
    CacheStep("mark_dirty_range", <<start, end>>,
              mark_dirty_range(cache, start, end), None)

CacheClear == CacheStep("clear", << >>, LineCache_clear(cache), None)

CheckBufferVersion ==
  \E current_version \in Versions :
    LET r == check_buffer_version(cache, current_version)
    IN CacheStep("check_buffer_version", <<current_version>>, r.cache, Some(r.ret))

NextCache ==
  \/ CacheGet
  \/ CacheInsert
  \/ MarkDirty
  \/ MarkDirtyRange
  \/ CacheClear
  \/ CheckBufferVersion
  \/ Return

SpecCache == InitCache /\ [][NextCache]_vars

(***************************************************************************)
(* LineElements over the Editor's buffer, sharing one LineCache: the       *)
(* buffer is edited by insert_char and backspace, and between the edits    *)
(* the element of any line is asked for its shaped line.                   *)
(***************************************************************************)
InitShape ==
  /\ editor = Editor_new
  /\ panicked = FALSE
  /\ lastOp = Idle
  /\ args = << >>
  /\ ret = None
  /\ runCol = NoRun
  /\ pre = editor
  /\ anchor = NoRun
  /\ loop = NoLoop
  /\ cache = LineCache_new
  /\ differ = NoDiffer
  /\ view = NoView

GetOrShapeLine ==
  \E line_idx \in Lines :
    LET r == get_or_shape_line(cache, editor.buffer, line_idx)
    IN /\ ~panicked
       /\ lastOp = Idle
       /\ cache' = r.cache
       /\ ret' = r.ret
       /\ lastOp' = "get_or_shape_line"
       /\ args' = <<line_idx>>
       /\ UNCHANGED <<editor, panicked, runCol, pre, anchor, loop, differ, view>>

NextShape ==
  \/ InsertChar
  \/ Backspace
  \/ GetOrShapeLine
  \/ Return

SpecShape == InitShape /\ [][NextShape]_vars

(***************************************************************************)
(* A Differ over any original text, asked for the diff of any modified     *)
(* text, its original replaced by update_original.                         *)
(***************************************************************************)
\* The texts handed to a Differ: of a letter, the space and the newline.
DiffChars == {"a", " ", NL}
DiffTexts == UNION {[1..k -> DiffChars] : k \in 0..MaxDiff}

InitDiff ==
  /\ editor = Editor_new
  /\ panicked = FALSE
  /\ lastOp = Idle
  /\ args = << >>
  /\ ret = None
  /\ runCol = NoRun
  /\ pre = editor
  /\ anchor = NoRun
  /\ loop = NoLoop
  /\ cache = LineCache_new
  /\ \E original \in DiffTexts : differ = [original |-> original]
  /\ view = NoView

ComputeDiff ==
  \E modified \in DiffTexts :
    \E changes \in iter_all_changes(differ.original, modified) :
      /\ ~panicked
      /\ lastOp = Idle
      /\ lastOp' = "compute_diff"
      /\ args' = <<modified>>
      /\ ret' = compute_diff(differ.original, modified, changes)
      /\ UNCHANGED <<editor, panicked, runCol, pre, anchor, loop, cache, differ, view>>

UpdateOriginal ==
  \E new_original \in DiffTexts :
    /\ ~panicked
    /\ lastOp = Idle
    /\ lastOp' = "update_original"
    /\ args' = <<new_original>>
    /\ ret' = None
    /\ differ' = [differ EXCEPT !.original = new_original]
    /\ UNCHANGED <<editor, panicked, runCol, pre, anchor, loop, cache, view>>

NextDiff ==
  \/ ComputeDiff
  \/ UpdateOriginal
  \/ Return

SpecDiff == InitDiff /\ [][NextDiff]_vars

(***************************************************************************)
(* A DiffEditorView from DiffEditorView::new on, handed key-down,          *)
(* mouse-down, mouse-move and mouse-up events in any order.  The keys c, x *)
(* and v are pressed with Cmd alone; the clipboard holds any of the        *)
(* PasteTexts or nothing.                                                  *)
(***************************************************************************)
InitView ==
  /\ editor = Editor_new
  /\ panicked = FALSE
  /\ lastOp = Idle
  /\ args = << >>
  /\ ret = None
  /\ runCol = NoRun
  /\ pre = editor
  /\ anchor = NoRun
  /\ loop = NoLoop
  /\ cache = LineCache_new
  /\ differ = NoDiffer
  /\ view = View_new

\* An event handler of the view: r is what it leaves.
ViewStep(op, r) ==
  /\ ~panicked
  /\ lastOp = Idle
  /\ Len(r.ed.buffer) <= MaxLen
  /\ editor' = r.ed
  /\ view' = r.view
  /\ panicked' = r.panic
  /\ lastOp' = op
  /\ args' = << >>
  /\ ret' = None
  /\ pre' = editor
  /\ UNCHANGED <<runCol, anchor, loop, cache, differ>>

Keys == {"enter", "backspace", "space", "a", "."} \cup ArrowKeys
ClipboardKeys == {"c", "x", "v"}

KeyDown ==
  \/ \E key \in Keys, shift_pressed \in BOOLEAN, cmd_pressed \in BOOLEAN,
        opt_pressed \in BOOLEAN :
       ViewStep("on_key_down",
                on_key_down(editor, view, key, shift_pressed, cmd_pressed, opt_pressed, None))
  \/ \E key \in ClipboardKeys :
       \E clipboard \in {None} \cup {Some(text) : text \in PasteTexts} :
         ViewStep("on_key_down", on_key_down(editor, view, key, FALSE, TRUE, FALSE, clipboard))

MouseDown ==
  \E index \in Offsets, click_count \in 1..4 :
    ViewStep("on_mouse_down", on_mouse_down(editor, view, index, click_count))

MouseMove ==
  \E index \in Offsets, left_pressed \in BOOLEAN :
    ViewStep("on_mouse_move", on_mouse_move(editor, view, index, left_pressed))

MouseUp == ViewStep("on_mouse_up", on_mouse_up(editor, view))

MouseUpOut == ViewStep("on_mouse_up_out", on_mouse_up(editor, view))

NextView ==
  \/ KeyDown
  \/ MouseDown
  \/ MouseMove
  \/ MouseUp
  \/ MouseUpOut
  \/ Return

SpecView == InitView /\ [][NextView]_vars

(***************************************************************************)
(* A TextBuffer from TextBuffer::new on, mutated by insert and delete with *)
(* every index and length up to one past the buffer's end.                 *)
(***************************************************************************)
InitBuffer ==
  /\ editor = MkEditor(buffer_new, cursor_new, None)
  /\ panicked = FALSE
  /\ lastOp = Idle
  /\ args = << >>
  /\ ret = None
  /\ runCol = NoRun
  /\ pre = editor
  /\ anchor = NoRun
  /\ EditorAlone

\* The texts handed to insert: one character of each class, and the texts
\* handed to paste.
InsertTexts == {<<ch>> : ch \in Alphabet} \cup PasteTexts

CallInsert ==
  \E index \in Positions, content \in InsertTexts :
    /\ Len(editor.buffer) + Len(content) <= MaxBuf
    /\ Step("insert", <<index, content>>,
            IF insert_panics(editor.buffer, index)
            THEN Panic(editor)
            ELSE Ok([editor EXCEPT !.buffer = insert(editor.buffer, index, content)],
                    None))

CallDelete ==
  \E index \in Positions, len \in Positions :
    Step("delete", <<index, len>>,
         IF delete_panics(editor.buffer, index, len)
         THEN Panic(editor)
         ELSE Ok([editor EXCEPT !.buffer = delete(editor.buffer, index, len)], None))

NextBuffer ==
  \/ CallInsert
  \/ CallDelete
  \/ Return

SpecBuffer == InitBuffer /\ [][NextBuffer]_vars

(***************************************************************************)
(* Properties                                                              *)
(***************************************************************************)
EditOps ==
  {"insert_char", "backspace", "delete_word", "delete_line", "delete_selection",
   "cut", "paste", "replace_selection"}

DeletingOps ==
  {"backspace", "delete_word", "delete_line", "delete_selection", "cut", "paste",
   "replace_selection"}

\* C1: every operation is total: no sequence of Editor operations from
\* Editor::new() reaches a call that panics.
C1_NoCallPanics == ~panicked

\* C2: whenever a selection is present, 0 <= start <= end <= buffer.len().
C2_SelectionInBuffer ==
  has_selection(editor) =>
    /\ 0 <= editor.selection[1].start
    /\ editor.selection[1].start <= editor.selection[1].end
    /\ editor.selection[1].end <= buffer_len(editor.buffer)

\* C3: cursor.index <= buffer.len() in every state reached by Editor
\* operations and Cursor movements on the editor's own buffer.
C3_CursorInBuffer == editor.cursor.index <= buffer_len(editor.buffer)

\* C3 witness: a deleting operation has left the cursor exactly at the end
\* of a buffer that is not empty and not full (so it was longer before).
C3_Witness ==
  /\ lastOp \in {"backspace", "delete_word", "delete_line"}
  /\ ~panicked
  /\ editor.cursor.index = Len(editor.buffer)
  /\ editor.cursor.index > 0
  /\ Len(editor.buffer) < MaxLen

\* C4: after backspace, delete_word, delete_line, delete_selection, cut,
\* paste or replace_selection has returned, the editor has no selection.
C4_DeletingOpsClearSelection ==
  (lastOp \in DeletingOps /\ ~panicked) => is_none(editor.selection)

\* C5: for every buffer and every offset i <= len,
\* line_col_to_char(char_to_line_col(i)) = i.
C5_RoundTrip ==
  (lastOp = "char_to_line_col" /\ args[1] <= buffer_len(editor.buffer)) =>
    line_col_to_char(editor.buffer, ret[1], ret[2]) = args[1]

\* C5 witness: the offset converted is the end of a buffer whose last line
\* is not the first, at a column past 0.
C5_Witness ==
  /\ lastOp = "char_to_line_col"
  /\ args[1] = buffer_len(editor.buffer)
  /\ ret[1] > 0
  /\ ret[2] > 0

\* C7: after every edit (insert_char, backspace, delete_word, delete_line,
\* delete_selection, cut, paste, replace_selection) cursor.goal is None.
C7_EditsClearGoal ==
  (lastOp \in EditOps /\ ~panicked) => editor.cursor.goal = GoalNone

NonVerticalMoves ==
  {"move_left", "move_right", "move_to_line_start", "move_to_line_end",
   "move_to_buffer_start", "move_to_buffer_end", "move_word_left", "move_word_right"}

\* The line and the column of the cursor before the last call, a Cursor
\* method (which leaves the buffer as it is).
PreLineCol == char_to_line_col(editor.buffer, args[1].index)

\* C6: sticky column. In a run of consecutive move_up/move_down calls that
\* started with goal None at column c (runCol), the goal is Column(c) after
\* every call, and every call that moves the cursor to an adjacent line
\* lands at column min(c, length of that line without its newline).
C6_StickyColumn ==
  (lastOp \in {"move_up", "move_down"} /\ runCol # NoRun) =>
    /\ editor.cursor.goal = Column(runCol)
    /\ CurLineCol[1] # PreLineCol[1] =>
         /\ CurLineCol[1] \in {PreLineCol[1] - 1, PreLineCol[1] + 1}
         /\ CurLineCol[2] = Min(runCol, line_len_trimmed(editor.buffer, CurLineCol[1]))

\* C6 witness: a move_up of a run started at column c >= 1 has brought the
\* cursor back to column c of the first line, coming from a second line
\* shorter than c (where the column was clamped).
C6_Witness ==
  /\ lastOp = "move_up"
  /\ runCol >= 1
  /\ PreLineCol[1] = 1
  /\ PreLineCol[2] < runCol
  /\ args[1].goal = Column(runCol)
  /\ CurLineCol = <<0, runCol>>

\* C8: every non-vertical cursor movement leaves goal None, whatever the
\* goal was and whether or not the index changed; a goal Column(_) that was
\* not there before the call is set by move_up or move_down only.
C8_NonVerticalClearsGoal ==
  /\ lastOp \in NonVerticalMoves => editor.cursor.goal = GoalNone
  /\ (lastOp # Idle /\ IsColumn(editor.cursor.goal)
        /\ editor.cursor.goal # args[1].goal) =>
       lastOp \in {"move_up", "move_down"}

\* C8 witness: a horizontal move at the buffer's edge left the index where
\* it was and cleared a goal that a vertical move had set.
C8_Witness ==
  /\ lastOp \in {"move_left", "move_right"}
  /\ IsColumn(args[1].goal)
  /\ editor.cursor.index = args[1].index
  /\ editor.cursor.goal = GoalNone

\* C9: segmentation idempotence. If find_word_boundaries(b, p0) = (start, end)
\* then find_word_boundaries(b, p) = (start, end) for every p in [start, end).
C9_SegmentationIdempotent ==
  lastOp = "find_word_boundaries" =>
    \A p \in ret[1]..(ret[2] - 1) : find_word_boundaries(editor.buffer, p) = ret

\* C9 witness: the segment found has more than one character and the
\* position asked for is not its first.
C9_Witness ==
  /\ lastOp = "find_word_boundaries"
  /\ ret[2] - ret[1] >= 2
  /\ args[1] > ret[1]
  /\ args[1] < ret[2]

\* The four classes of the segmentation.
CharClass(ch) ==
  IF ch = NL THEN "NEWLINE"
  ELSE IF is_whitespace(ch) THEN "WHITESPACE"
  ELSE IF is_word_char(ch) THEN "WORD"
  ELSE "NON-WORD"

\* C10: on a non-empty buffer find_word_boundaries(b, p) = (s, e) with
\* s <= p' < e for p' = min(p, len - 1); every character of [s, e) has the
\* class of the character at p'; a NEWLINE segment is one character; the
\* characters at s - 1 and at e, when they exist, are of another class or
\* are newlines. On the empty buffer the result is (0, 0).
C10_SegmentIsMaximalRun ==
  lastOp = "find_word_boundaries" =>
    LET chars == editor.buffer
        n == Len(chars)
        s == ret[1]
        e == ret[2]
        q == Min(args[1], n - 1)
    IN IF n = 0 THEN ret = <<0, 0>>
       ELSE /\ s <= q
            /\ q < e
            /\ e <= n
            /\ \A i \in s..(e - 1) : CharClass(At(chars, i)) = CharClass(At(chars, q))
            /\ CharClass(At(chars, q)) = "NEWLINE" => e = s + 1
            /\ s > 0 => \/ CharClass(At(chars, s - 1)) # CharClass(At(chars, q))
                        \/ At(chars, s - 1) = NL
            /\ e < n => \/ CharClass(At(chars, e)) # CharClass(At(chars, q))
                        \/ At(chars, e) = NL

\* C10 witness: a run of two or more non-word characters found from a
\* position past the end of the buffer, with a character of another class
\* before it.
C10_Witness ==
  /\ lastOp = "find_word_boundaries"
  /\ args[1] > Len(editor.buffer)
  /\ ret[2] - ret[1] >= 2
  /\ ret[1] > 0
  /\ CharClass(At(editor.buffer, ret[1])) = "NON-WORD"


Reverse(seq) == [i \in 1..Len(seq) |-> seq[Len(seq) + 1 - i]]

\* The segment boundaries of a buffer: 0 and the end of every segment.
SegmentBoundaries(buffer) ==
  {0} \cup {find_word_boundaries(buffer, p)[2] : p \in 0..(Len(buffer) - 1)}

\* C11: word navigation is reversible: the indices visited by repeated
\* move_word_right from 0 until buffer.len() are, read backwards, exactly
\* the indices visited by repeated move_word_left from buffer.len() until
\* 0; both walks reach their end, and visit every segment boundary once,
\* in order, and nothing else.
C11_WordWalkReversible ==
  lastOp = "walk_words" =>
    LET right == ret[1]
        left == ret[2]
        n == Len(editor.buffer)
    IN /\ right[1] = 0
       /\ right[Len(right)] = n
       /\ left[1] = n
       /\ left[Len(left)] = 0
       /\ Reverse(right) = left
       /\ {right[k] : k \in 1..Len(right)} = SegmentBoundaries(editor.buffer)
       /\ \A k \in 1..(Len(right) - 1) : right[k] < right[k + 1]

\* C11 witness: a walk over two lines that visits four or more indices,
\* one of them inside the buffer's first line and one on its second.
C11_Witness ==
  /\ lastOp = "walk_words"
  /\ Len(ret[1]) >= 4
  /\ line_count(editor.buffer) >= 2
  /\ \E k \in 1..Len(ret[2]) :
       /\ ret[2][k] > 0
       /\ char_to_line_col(editor.buffer, ret[2][k]) = <<0, ret[2][k]>>
  /\ \E k \in 1..Len(ret[1]) :
       char_to_line_col(editor.buffer, ret[1][k])[1] = 1


\* C12: word motion respects line boundaries: move_word_left from a
\* cursor at column > 0 never ends before the start of the cursor's line;
\* from column 0 with index > 0 it ends exactly at index - 1, on the
\* preceding newline; move_word_right never ends past the start of the
\* next line (past the end of the buffer on the last line).
C12_WordMotionRespectsLines ==
  LET buffer == editor.buffer
      before == args[1].index
      after == editor.cursor.index
      ln == PreLineCol[1]
      col == PreLineCol[2]
  IN /\ lastOp = "move_word_left" =>
          /\ col > 0 => /\ after >= line_to_char(buffer, ln)
                        /\ after < before
          /\ (col = 0 /\ before > 0) => /\ after = before - 1
                                        /\ At(buffer, after) = NL
     /\ lastOp = "move_word_right" =>
          /\ after >= before
          /\ after <= (IF ln + 1 < line_count(buffer)
                       THEN line_to_char(buffer, ln + 1)
                       ELSE buffer_len(buffer))

\* C12 witness: move_word_left from column 0 of a later line has put the
\* cursor on the newline that ends a non-empty line.
C12_Witness ==
  /\ lastOp = "move_word_left"
  /\ args[1].index > 1
  /\ PreLineCol[2] = 0
  /\ editor.cursor.index = args[1].index - 1
  /\ At(editor.buffer, editor.cursor.index) = NL
  /\ At(editor.buffer, editor.cursor.index - 1) # NL


\* The offset just past line ln of chars: past its newline when it has
\* one, the end of chars when it is the last line.
LineEnd(chars, ln) ==
  LET s == line_to_char(chars, ln)
      nls == {k \in s..(Len(chars) - 1) : At(chars, k) = NL}
  IN IF nls = {} THEN Len(chars)
     ELSE 1 + CHOOSE k \in nls : \A m \in nls : k <= m

\* new is old without the characters at offsets from..to-1.
Removed(old, new, from, to) ==
  new = Slice(old, 0, from) \o Slice(old, to, Len(old))

C14_DeleteLineRemovesLine ==
  lastOp = "delete_line" =>
    LET old == pre.buffer
        ln == char_to_line_col(old, pre.cursor.index)[1]
        s == line_to_char(old, ln)
    IN /\ ~panicked
       /\ Removed(old, editor.buffer, s, LineEnd(old, ln))
       /\ editor.cursor.index = s

\* C14 witness: delete_line has removed a middle line of two or more
\* characters, newline included, with the cursor inside it.
C14_Witness ==
  /\ lastOp = "delete_line"
  /\ editor.cursor.index > 0
  /\ editor.cursor.index < Len(editor.buffer)
  /\ pre.cursor.index > editor.cursor.index
  /\ Len(pre.buffer) >= Len(editor.buffer) + 2
  /\ At(pre.buffer, LineEnd(pre.buffer, char_to_line_col(pre.buffer, pre.cursor.index)[1]) - 1) = NL


\* C20: insert_char(ch) with the cursor at offset i (i <= len) makes the
\* buffer old[0..i] ++ [ch] ++ old[i..], increases buffer.len() by exactly 1
\* and sets cursor.index = i + 1, for every character, the four-byte one
\* and the newline included.
C20_InsertCharAtCursor ==
  (lastOp = "insert_char" /\ pre.cursor.index <= buffer_len(pre.buffer)) =>
    LET old == pre.buffer
        i == pre.cursor.index
    IN /\ ~panicked
       /\ editor.buffer = Slice(old, 0, i) \o <<args[1]>> \o Slice(old, i, Len(old))
       /\ buffer_len(editor.buffer) = buffer_len(old) + 1
       /\ editor.cursor.index = i + 1

\* C20 witness: the four-byte character has been inserted between two
\* characters of a line.
C20_Witness ==
  /\ lastOp = "insert_char"
  /\ args[1] = Globe
  /\ editor.cursor.index >= 2
  /\ editor.cursor.index < Len(editor.buffer)
  /\ At(editor.buffer, editor.cursor.index - 2) # NL
  /\ At(editor.buffer, editor.cursor.index) # NL


\* C15: the selection anchor is fixed while extending. In a run of
\* extend_selection_* calls that started with no selection and the cursor
\* at offset a (anchor), with no other operation in between, after every
\* call selection.tail() = a and selection.head() = cursor.index; the
\* selection is the range between a and the cursor, so that extending back
\* towards a shrinks it and passing a flips reversed (reversed exactly when
\* the cursor is before a).
C15_AnchorFixedWhileExtending ==
  /\ anchor # NoRun =>
       /\ is_some(editor.selection)
       /\ tail(editor.selection[1]) = anchor
       /\ head(editor.selection[1]) = editor.cursor.index
       /\ editor.selection[1].start = Min(anchor, editor.cursor.index)
       /\ editor.selection[1].end = Max(anchor, editor.cursor.index)
       /\ editor.selection[1].reversed <=> editor.cursor.index < anchor
  /\ (lastOp \in ExtendOps /\ is_none(pre.selection)) => anchor = pre.cursor.index

\* C15 witness: in a run that started at an offset inside the buffer, a
\* call has taken the cursor from after the anchor to before it, turning a
\* non-empty forward selection into a non-empty reversed one.
C15_Witness ==
  /\ lastOp \in ExtendOps
  /\ anchor # NoRun
  /\ is_some(pre.selection)
  /\ ~pre.selection[1].reversed
  /\ pre.selection[1].start < pre.selection[1].end
  /\ editor.selection[1].reversed
  /\ editor.selection[1].end = anchor
  /\ editor.cursor.index < anchor

\* C16: Selection::new(a, h) normalizes for every pair (a, h): start =
\* min(a, h), end = max(a, h), reversed exactly when a > h (select_range
\* stores Selection::new(start, end)); hence after any extend_selection_*
\* call selection.start <= selection.end.
C16_SelectionNormalized ==
  /\ lastOp = "select_range" =>
       /\ is_some(editor.selection)
       /\ editor.selection[1].start = Min(args[1], args[2])
       /\ editor.selection[1].end = Max(args[1], args[2])
       /\ editor.selection[1].reversed <=> args[1] > args[2]
       /\ editor.selection[1].start <= editor.selection[1].end
  /\ lastOp \in ExtendOps =>
       /\ is_some(editor.selection)
       /\ editor.selection[1].start <= editor.selection[1].end
       /\ editor.selection[1].reversed =>
            editor.selection[1].start < editor.selection[1].end

\* C16 witness: select_range called with its anchor after its head.
C16_Witness ==
  /\ lastOp = "select_range"
  /\ args[1] > args[2]
  /\ editor.selection[1].reversed
  /\ editor.selection[1].start = args[2]
  /\ editor.selection[1].end = args[1]


\* C17: delete_selection with a selection [s, e) inside the buffer returns
\* exactly the characters at offsets s..e-1, leaves the buffer equal to the
\* old characters before s followed by the old characters from e on, sets
\* cursor.index = s and clears the selection; with no selection it returns
\* none and leaves buffer, cursor and selection unchanged.
C17_DeleteSelection ==
  lastOp = "delete_selection" =>
    IF is_some(pre.selection)
    THEN LET s == pre.selection[1].start
             e == pre.selection[1].end
         IN e <= buffer_len(pre.buffer) =>
              /\ ~panicked
              /\ ret = Some(Slice(pre.buffer, s, e))
              /\ Removed(pre.buffer, editor.buffer, s, e)
              /\ editor.cursor.index = s
              /\ is_none(editor.selection)
    ELSE /\ ~panicked
         /\ ret = None
         /\ editor = pre

\* C17 witness: delete_selection has removed a non-empty reversed selection
\* from the middle of the buffer, with the cursor elsewhere before the call.
C17_Witness ==
  /\ lastOp = "delete_selection"
  /\ is_some(pre.selection)
  /\ pre.selection[1].reversed
  /\ pre.selection[1].start > 0
  /\ pre.selection[1].end < Len(pre.buffer)
  /\ pre.cursor.index # pre.selection[1].start
  /\ Len(ret[1]) > 0

\* C18: paste(text) and replace_selection(text) produce the same state:
\* with a selection [s, e) the buffer becomes old[0..s] ++ text ++ old[e..],
\* cursor.index = s + (number of characters of text) and the selection is
\* cleared; with no selection and the cursor at i the buffer becomes
\* old[0..i] ++ text ++ old[i..] and cursor.index = i + (number of
\* characters of text).
C18_PasteReplacesSelection ==
  lastOp \in {"paste", "replace_selection"} =>
    LET old == pre.buffer
        text == args[1]
        at == IF is_some(pre.selection)
              THEN pre.selection[1].start
              ELSE pre.cursor.index
        to == IF is_some(pre.selection)
              THEN pre.selection[1].end
              ELSE pre.cursor.index
    IN /\ ~panicked
       /\ editor = paste(pre, text).ed
       /\ editor = replace_selection(pre, text).ed
       /\ editor.buffer = Slice(old, 0, at) \o text \o Slice(old, to, Len(old))
       /\ editor.cursor.index = at + Len(text)
       /\ is_none(editor.selection)

\* The clamped range of a selection: its offsets that exist in the buffer.
SelectedChars(ed) ==
  LET n == Len(ed.buffer)
  IN Slice(ed.buffer, Min(ed.selection[1].start, n), Min(ed.selection[1].end, n))

\* C19: copy() and get_selected_text() leave buffer, cursor (index and
\* goal) and selection unchanged, and return the characters of the
\* selection range, or none when no selection exists.
C19_CopyReadsSelection ==
  lastOp \in {"copy", "get_selected_text"} =>
    /\ ~panicked
    /\ editor = pre
    /\ ret = IF is_some(pre.selection)
             THEN Some([k \in 1..(Min(pre.selection[1].end, Len(pre.buffer))
                                  - Min(pre.selection[1].start, Len(pre.buffer)))
                        |-> At(pre.buffer, pre.selection[1].start + k - 1)])
             ELSE None

\* C19 witness: copy has returned a selection of two or more characters
\* that starts after the first character of the buffer.
C19_Witness ==
  /\ lastOp = "copy"
  /\ is_some(editor.selection)
  /\ editor.selection[1].start > 0
  /\ editor.selection[1].end - editor.selection[1].start >= 2
  /\ Len(ret[1]) >= 2


\* C21: backspace() with the cursor at i > 0 removes exactly the character
\* at offset i - 1, leaves all other characters unchanged and sets
\* cursor.index = i - 1; with the cursor at 0 it leaves buffer and
\* cursor.index unchanged.
C21_BackspaceRemovesPrevious ==
  lastOp = "backspace" =>
    LET old == pre.buffer
        i == pre.cursor.index
    IN /\ ~panicked
       /\ i > 0 =>
            /\ Removed(old, editor.buffer, i - 1, i)
            /\ buffer_len(editor.buffer) = buffer_len(old) - 1
            /\ editor.cursor.index = i - 1
       /\ i = 0 =>
            /\ editor.buffer = old
            /\ editor.cursor.index = 0

\* C21 witness: backspace has removed a character that had characters on
\* both sides, the one after it different from it.
C21_Witness ==
  /\ lastOp = "backspace"
  /\ pre.cursor.index >= 2
  /\ pre.cursor.index < Len(pre.buffer)
  /\ At(pre.buffer, pre.cursor.index - 1) # At(pre.buffer, pre.cursor.index)
  /\ Len(editor.buffer) = Len(pre.buffer) - 1


\* C22: TextBuffer.delete(index, len) never fails for any index and any
\* len: an index beyond the buffer length is clamped to the buffer length,
\* the removed range is [min(index, n), min(index + len, n)) where n is
\* len() before the call, and the characters outside that range are
\* unchanged.
C22_DeleteNeverFails ==
  lastOp = "delete" =>
    LET n == buffer_len(pre.buffer)
    IN /\ ~panicked
       /\ Removed(pre.buffer, editor.buffer, Min(args[1], n), Min(args[1] + args[2], n))

\* The number of newline characters of a buffer.
Newlines(buffer) == Len(SelectSeq(buffer, LAMBDA ch : ch = NL))

C24_HorizontalSaturates ==
  LET max == buffer_len(editor.buffer)
      before == args[1].index
      after == editor.cursor.index
  IN /\ lastOp = "move_left" =>
          /\ before = 0 => after = 0
          /\ before > 0 => after = before - 1
          /\ after >= 0
          /\ after <= max
     /\ lastOp = "move_right" =>
          /\ before = max => after = max
          /\ before < max => after = before + 1
          /\ after >= 0
          /\ after <= max

\* C24 witness: move_right called at the end of a non-empty buffer has left
\* the cursor there.
C24_Witness ==
  /\ lastOp = "move_right"
  /\ Len(editor.buffer) > 0
  /\ args[1].index = Len(editor.buffer)
  /\ editor.cursor.index = Len(editor.buffer)


\* Single non-word characters alternating with single spaces.
NonWordsAndSpacesAlternate(chars) ==
  /\ \A k \in 0..(Len(chars) - 1) :
       \/ At(chars, k) = " "
       \/ CharClass(At(chars, k)) = "NON-WORD"
  /\ \A k \in 0..(Len(chars) - 2) :
       (At(chars, k) = " ") # (At(chars, k + 1) = " ")

\* C25: non-word characters merge into one segment only when directly
\* adjacent: no segment returned by find_word_boundaries contains both a
\* whitespace character and a non-whitespace character (while two adjacent
\* non-word characters are in one segment), so in a buffer where single
\* non-word characters alternate with single spaces, repeated
\* move_word_right from 0 stops at every offset 1, 2, ..., len.
C25_WhitespaceSeparatesNonWords ==
  LET chars == editor.buffer
      n == Len(chars)
  IN /\ lastOp = "find_word_boundaries" =>
          /\ \A i \in ret[1]..(ret[2] - 1), j \in ret[1]..(ret[2] - 1) :
               is_whitespace(At(chars, i)) = is_whitespace(At(chars, j))
          /\ \A i \in ret[1]..(ret[2] - 1) :
               (/\ i + 1 < n
                /\ CharClass(At(chars, i)) = "NON-WORD"
                /\ CharClass(At(chars, i + 1)) = "NON-WORD") => i + 1 < ret[2]
     /\ (lastOp = "walk_words" /\ NonWordsAndSpacesAlternate(chars)) =>
          ret[1] = [k \in 1..(n + 1) |-> k - 1]

\* C25 witness: the walk over three non-word characters separated by single
\* spaces.
C25_Witness ==
  /\ lastOp = "walk_words"
  /\ NonWordsAndSpacesAlternate(editor.buffer)
  /\ Len(editor.buffer) = 5
  /\ At(editor.buffer, 0) # " "
  /\ ret[1] = <<0, 1, 2, 3, 4, 5>>


\* C26: select_line_at(index) sets the selection to exactly the line
\* containing min(index, len): from that line's first offset to the first
\* offset of the next line (the trailing newline included), or to
\* buffer.len() for the last line; select_all() sets the selection to
\* [0, buffer.len()]; select_word_at(index) sets it to
\* find_word_boundaries(buffer, index). None of the three moves the cursor
\* or changes the buffer.
C26_SelectLineAllWord ==
  LET chars == pre.buffer
      n == Len(chars)
  IN /\ lastOp \in {"select_line_at", "select_all", "select_word_at"} =>
          /\ ~panicked
          /\ editor.buffer = pre.buffer
          /\ editor.cursor = pre.cursor
          /\ is_some(editor.selection)
          /\ ~editor.selection[1].reversed
     /\ lastOp = "select_line_at" =>
          LET at == Min(args[1], n)
              ln == Len(SelectSeq(Slice(chars, 0, at), LAMBDA ch : ch = NL))
              first == IF ln = 0 THEN 0
                       ELSE 1 + CHOOSE k \in 0..(at - 1) :
                                  /\ At(chars, k) = NL
                                  /\ \A m \in (k + 1)..(at - 1) : At(chars, m) # NL
          IN /\ editor.selection[1].start = first
             /\ first <= at
             /\ editor.selection[1].end = LineEnd(chars, ln)
             /\ \A k \in first..(editor.selection[1].end - 2) : At(chars, k) # NL
     /\ lastOp = "select_all" =>
          /\ editor.selection[1].start = 0
          /\ editor.selection[1].end = n
     /\ lastOp = "select_word_at" =>
          <<editor.selection[1].start, editor.selection[1].end>>
            = find_word_boundaries(chars, args[1])

\* C26 witness: select_line_at called with an index past the end of the
\* buffer has selected a last line that starts after the first line and
\* ends with the buffer.
C26_Witness ==
  /\ lastOp = "select_line_at"
  /\ args[1] > Len(editor.buffer)
  /\ editor.selection[1].start > 0
  /\ editor.selection[1].start < editor.selection[1].end
  /\ editor.selection[1].end = Len(editor.buffer)
  /\ At(editor.buffer, editor.selection[1].end - 1) # NL


\* C27: delete_word with the cursor at i (0 < i <= len) removes exactly the
\* characters in [j, i), where j is the index move_word_left would reach
\* from i on the same buffer, leaves the characters outside [j, i)
\* unchanged and ends with cursor.index = j; with the cursor at 0 it
\* changes nothing.
C27_DeleteWordIsMoveWordLeft ==
  lastOp = "delete_word" =>
    LET i == pre.cursor.index
        j == move_word_left(pre.cursor, pre.buffer).index
    IN /\ ~panicked
       /\ (0 < i /\ i <= buffer_len(pre.buffer)) =>
            /\ j < i
            /\ Removed(pre.buffer, editor.buffer, j, i)
            /\ editor.cursor.index = j
       /\ i = 0 => editor = pre

\* C27 witness: delete_word has removed two or more characters that were
\* neither at the start of their line nor at the end of the buffer.
C27_Witness ==
  /\ lastOp = "delete_word"
  /\ pre.cursor.index < Len(pre.buffer)
  /\ pre.cursor.index - editor.cursor.index >= 2
  /\ char_to_line_col(editor.buffer, editor.cursor.index)[2] > 0


\* C28: vertical movement snaps at the buffer's first and last line:
\* move_up with the cursor on line 0 sets index to 0, move_down with the
\* cursor on the last line sets index to buffer.len(), and in both cases
\* goal becomes Column(target column), where the target column is the
\* previous goal's column if set and otherwise the column the cursor had
\* before the call.
C28_VerticalSnap ==
  LET target == IF IsColumn(args[1].goal) THEN args[1].goal[2] ELSE PreLineCol[2]
  IN /\ (lastOp = "move_up" /\ PreLineCol[1] = 0) =>
          /\ editor.cursor.index = 0
          /\ editor.cursor.goal = Column(target)
     /\ (lastOp = "move_down" /\ PreLineCol[1] = line_count(editor.buffer) - 1) =>
          /\ editor.cursor.index = buffer_len(editor.buffer)
          /\ editor.cursor.goal = Column(target)

\* C28 witness: move_up from inside the first line of a buffer of two or
\* more lines, with a goal column other than the cursor's column, has put
\* the cursor at index 0 and kept that goal.
C28_Witness ==
  /\ lastOp = "move_up"
  /\ line_count(editor.buffer) >= 2
  /\ PreLineCol[1] = 0
  /\ PreLineCol[2] > 0
  /\ IsColumn(args[1].goal)
  /\ args[1].goal[2] # PreLineCol[2]
  /\ editor.cursor.index = 0
  /\ editor.cursor.goal = args[1].goal


\* C29: move_to_line_start puts the cursor at column 0 of its current line
\* and move_to_line_end puts it just before that line's newline (or at
\* buffer.len() on the last line); both leave the cursor on the same line,
\* and both are idempotent (a second call changes nothing).
C29_LineStartEnd ==
  LET buffer == editor.buffer
      ln == PreLineCol[1]
      last == ln = line_count(buffer) - 1
  IN /\ lastOp = "move_to_line_start" =>
          /\ CurLineCol = <<ln, 0>>
          /\ editor.cursor.index <= args[1].index
          /\ move_to_line_start(editor.cursor, buffer) = editor.cursor
     /\ lastOp = "move_to_line_end" =>
          /\ CurLineCol[1] = ln
          /\ editor.cursor.index >= args[1].index
          /\ last => editor.cursor.index = buffer_len(buffer)
          /\ ~last => /\ editor.cursor.index = LineEnd(buffer, ln) - 1
                      /\ At(buffer, editor.cursor.index) = NL
          /\ move_to_line_end(editor.cursor, buffer) = editor.cursor

\* C29 witness: move_to_line_end from the start of a line that is neither
\* the first nor the last has put the cursor on that line's newline, past
\* one or more characters.
C29_Witness ==
  /\ lastOp = "move_to_line_end"
  /\ PreLineCol[1] > 0
  /\ PreLineCol[2] = 0
  /\ editor.cursor.index > args[1].index
  /\ editor.cursor.index < Len(editor.buffer)
  /\ At(editor.buffer, editor.cursor.index) = NL


\* The first offset of line ln of chars (ln below the number of lines): 0,
\* or the offset after the newline that has ln - 1 newlines before it.
LineStart(chars, ln) ==
  IF ln = 0 THEN 0
  ELSE 1 + CHOOSE k \in 0..(Len(chars) - 1) :
             /\ At(chars, k) = NL
             /\ Newlines(Slice(chars, 0, k)) = ln - 1

\* C30: line_col_to_char(line, col) returns buffer.len() when line >=
\* line_count(); otherwise it returns line_start + min(col, length of the
\* line including its trailing newline), so a column past the end of a
\* non-final line yields the first offset of the next line.
C30_LineColToChar ==
  lastOp = "line_col_to_char" =>
    LET chars == editor.buffer
        ln == args[1]
        col == args[2]
        lines == 1 + Newlines(chars)
    IN IF ln >= lines THEN ret[1] = buffer_len(chars)
       ELSE LET first == LineStart(chars, ln)
                length == LineEnd(chars, ln) - first
            IN /\ ret[1] = first + Min(col, length)
               /\ (ln + 1 < lines /\ col >= length) =>
                    ret[1] = LineStart(chars, ln + 1)

\* C30 witness: a column past the end of a non-empty line that is not the
\* last has given the first offset of the next line.
C30_Witness ==
  /\ lastOp = "line_col_to_char"
  /\ args[1] + 1 < line_count(editor.buffer)
  /\ ret[1] >= 2
  /\ At(editor.buffer, ret[1] - 1) = NL
  /\ At(editor.buffer, ret[1] - 2) # NL
  /\ args[2] > Len(rope_line(editor.buffer, args[1]))


\* What each loop ends in: move_word_right at the end of the buffer,
\* move_word_left at 0, delete_word at 0 with the characters that were before
\* the cursor, and no others, removed.
LoopDone ==
  /\ ~panicked
  /\ loop.op = "move_word_right" =>
       editor.cursor.index = buffer_len(editor.buffer)
  /\ loop.op = "move_word_left" => editor.cursor.index = 0
  /\ loop.op = "delete_word" =>
       /\ editor.cursor.index = 0
       /\ editor.buffer = Slice(loop.buffer, loop.index, Len(loop.buffer))

\* One call moves the cursor: move_word_right to a greater index from any
\* index below len(), move_word_left to a smaller one from any index in
\* (0, len()].
WordMotionMoves ==
  /\ (lastOp = "move_word_right" /\ pre.cursor.index < buffer_len(pre.buffer)) =>
       editor.cursor.index > pre.cursor.index
  /\ (lastOp = "move_word_left" /\ 0 < pre.cursor.index
        /\ pre.cursor.index <= buffer_len(pre.buffer)) =>
       editor.cursor.index < pre.cursor.index

\* C31: word motion always makes progress: move_word_right strictly increases
\* cursor.index whenever index < buffer.len(), move_word_left strictly
\* decreases it whenever 0 < index <= buffer.len(); so repeated
\* move_word_right eventually reaches buffer.len(), repeated move_word_left
\* eventually reaches 0, and repeated delete_word eventually leaves the cursor
\* at 0 with every character that was before the cursor removed.
C31_WordMotionTerminates == []WordMotionMoves /\ <>[]LoopDone

\* A loop of delete_word that started behind a second word has just ended at
\* 0 with its second call or a later one.
C31_Witness ==
  /\ loop # NoLoop
  /\ loop.op = "delete_word"
  /\ lastOp = "delete_word"
  /\ 0 < pre.cursor.index
  /\ pre.cursor.index < loop.index
  /\ editor.cursor.index = 0
  /\ editor.buffer = Slice(loop.buffer, loop.index, Len(loop.buffer))


\* C32: insert_char followed immediately by backspace is the identity on the
\* buffer and on cursor.index: for every editor state with cursor.index <=
\* buffer.len() and every character ch, after insert_char(ch); backspace() the
\* buffer content and cursor.index equal their values before.
C32_InsertThenBackspaceIsIdentity ==
  (lastOp = "insert_char; backspace" /\ pre.cursor.index <= buffer_len(pre.buffer)) =>
    /\ ~panicked
    /\ editor.buffer = pre.buffer
    /\ editor.cursor.index = pre.cursor.index

\* The pair has run in the middle of a line, between two characters other
\* than the inserted one.
C32_Witness ==
  /\ lastOp = "insert_char; backspace"
  /\ ~panicked
  /\ 0 < pre.cursor.index
  /\ pre.cursor.index < buffer_len(pre.buffer)
  /\ At(pre.buffer, pre.cursor.index - 1) # args[1]
  /\ At(pre.buffer, pre.cursor.index) # args[1]
  /\ editor.buffer = pre.buffer


\* C33 as claimed: delete_line on a buffer with at least two lines reduces
\* line_count() by exactly one, whichever line the cursor is on (first,
\* middle or last).
C33_DeleteLineReducesLineCount ==
  (lastOp = "delete_line" /\ line_count(pre.buffer) >= 2) =>
    /\ ~panicked
    /\ line_count(editor.buffer) = line_count(pre.buffer) - 1

\* C33, amended: delete_line on a buffer with at least two lines reduces
\* line_count() by exactly one when the cursor is on a line other than the
\* last (the line goes with its newline); on the last line it removes the
\* line's characters only, the newline in front of them stays, and
\* line_count() is unchanged.
C33_DeleteLineReducesLineCountUnlessLast ==
  (lastOp = "delete_line" /\ line_count(pre.buffer) >= 2) =>
    LET ln == char_to_line_col(pre.buffer, pre.cursor.index)[1]
    IN /\ ~panicked
       /\ ln + 1 < line_count(pre.buffer) =>
            line_count(editor.buffer) = line_count(pre.buffer) - 1
       /\ ln + 1 = line_count(pre.buffer) =>
            /\ line_count(editor.buffer) = line_count(pre.buffer)
            /\ editor.buffer = Slice(pre.buffer, 0, line_to_char(pre.buffer, ln))

\* delete_line has run on the last, non-empty line of three.
C33_Witness ==
  /\ lastOp = "delete_line"
  /\ ~panicked
  /\ line_count(pre.buffer) = 3
  /\ char_to_line_col(pre.buffer, pre.cursor.index)[1] = 2
  /\ buffer_len(editor.buffer) < buffer_len(pre.buffer)
  /\ line_count(editor.buffer) = 3


\* The call that has just returned marked line i dirty.
MarkedDirty(i) ==
  \/ lastOp' = "mark_dirty" /\ args'[1] = i
  \/ lastOp' = "mark_dirty_range" /\ args'[1] <= i /\ i <= args'[2]

\* The call that has just returned was insert(i, _).
Inserted(i) == lastOp' = "insert" /\ args'[1] = i

\* The call that has just returned cleared the cache.
Cleared ==
  \/ lastOp' = "clear"
  \/ lastOp' = "check_buffer_version" /\ ret' = Some(TRUE)

\* C34: LineCache never serves a dirty line: after mark_dirty(i) or
\* mark_dirty_range(a, b) covering i, get(i) returns none until insert(i, _)
\* is called; after insert(i, s), get(i) returns s until i is marked dirty
\* again or the cache is cleared (or another line is inserted at i);
\* mark_dirty(i) does not affect get(j) for j # i.  Step by step: marking i
\* makes get(i) none, nothing but insert(i, _) ends get(i) being none,
\* insert(i, s) makes get(i) s, and nothing but marking i, clearing or
\* inserting at i changes a line that get(i) returns.
C34_NeverServesDirty ==
  [][\A i \in Lines :
       /\ MarkedDirty(i) => LineCache_get(cache', i) = None
       /\ (LineCache_get(cache, i) = None /\ ~Inserted(i)) =>
            LineCache_get(cache', i) = None
       /\ Inserted(i) => LineCache_get(cache', i) = Some(args'[2])
       /\ (LineCache_get(cache, i) # None /\ ~MarkedDirty(i) /\ ~Cleared
             /\ ~Inserted(i)) =>
            LineCache_get(cache', i) = LineCache_get(cache, i)
       /\ (lastOp' = "mark_dirty" /\ args'[1] # i) =>
            LineCache_get(cache', i) = LineCache_get(cache, i)
       /\ (lastOp' = "get" /\ args'[1] = i) =>
            ret' = LineCache_get(cache, i) /\ cache' = cache
    ]_vars

\* get has returned none for a dirty line that has a shaped line in the cache,
\* next to a clean line it would return.
C34_Witness ==
  /\ lastOp = "get"
  /\ args[1] \in cache.dirty_lines
  /\ args[1] \in DOMAIN cache.shaped_lines
  /\ ret = None
  /\ \E j \in Lines : j # args[1] /\ LineCache_get(cache, j) # None

\* C35: LineCache.check_buffer_version(v) returns true exactly when v differs
\* from the stored buffer_version; when it returns true the cache holds no
\* shaped lines and no dirty lines afterwards and buffer_version == v; when it
\* returns false the shaped lines, dirty lines and buffer_version are
\* unchanged.
C35_CheckBufferVersion ==
  lastOp = "check_buffer_version" =>
    /\ ret = Some(args[1] # pre.buffer_version)
    /\ ret = Some(TRUE) =>
         /\ DOMAIN cache.shaped_lines = {}
         /\ cache.dirty_lines = {}
         /\ cache.buffer_version = args[1]
    /\ ret = Some(FALSE) => cache = pre

\* check_buffer_version has returned true on a cache with a shaped line and
\* a dirty line.
C35_Witness ==
  /\ lastOp = "check_buffer_version"
  /\ ret = Some(TRUE)
  /\ DOMAIN pre.shaped_lines # {}
  /\ pre.dirty_lines # {}
  /\ DOMAIN cache.shaped_lines = {}


\* C36: the shaped-line cache is coherent with the buffer: after any sequence
\* of buffer edits interleaved with LineElement::get_or_shape_line calls on
\* one shared LineCache, the shaped line returned for line i was shaped from
\* the current content of line i of the buffer (never from content the line
\* had before an edit).
C36_ShapedFromCurrentLine ==
  lastOp = "get_or_shape_line" => ret = line_text(editor.buffer, args[1])


\* The line at place n of a diff is the removed half of a Modified pair: a
\* Modified line at an odd place of its run of Modified lines (a run is the
\* pairs of one block; two blocks have an Unchanged line between them).
RemovedHalf(diff, n) ==
  /\ diff[n].kind = "Modified"
  /\ LET run_start == CHOOSE s \in 1..n :
                        /\ \A k \in s..n : diff[k].kind = "Modified"
                        /\ s > 1 => diff[s - 1].kind # "Modified"
     IN (n - run_start) % 2 = 0

\* The lines of a diff that stand for a line of the modified text.
Numbered(diff) ==
  LET places == {n \in 1..Len(diff) : diff[n].kind # "Removed" /\ ~RemovedHalf(diff, n)}
      RECURSIVE pick(_)
      pick(n) == IF n > Len(diff) THEN << >>
                 ELSE IF n \in places THEN <<diff[n]>> \o pick(n + 1)
                 ELSE pick(n + 1)
  IN pick(1)

\* C37: in the output of Differ::compute_diff, every Removed line and the
\* removed half of every Modified pair has line_number 0, and the remaining
\* lines (Unchanged, Added, added half of Modified) carry the line numbers
\* 1, 2, 3, ... consecutively in output order, ending at the number of lines
\* of the modified text.
C37_LineNumbers ==
  lastOp = "compute_diff" =>
    /\ \A n \in 1..Len(ret) :
         (ret[n].kind = "Removed" \/ RemovedHalf(ret, n)) => ret[n].line_number = 0
    /\ LET numbered == Numbered(ret)
       IN /\ \A k \in 1..Len(numbered) : numbered[k].line_number = k
          /\ Len(numbered) = Newlines(args[1]) + 1

\* A diff with a Modified pair, whose removed half has number 0, followed by
\* a line of a greater number than the added half.
C37_Witness ==
  /\ lastOp = "compute_diff"
  /\ \E n \in 1..Len(ret) :
       /\ RemovedHalf(ret, n)
       /\ ret[n].line_number = 0
       /\ ret[n + 1].kind = "Modified"
       /\ ret[n + 1].line_number > 0
  /\ ret[Len(ret)].kind = "Unchanged"
  /\ ret[Len(ret)].line_number >= 2

\* C38: in the output of Differ::compute_diff, every line with a non-zero
\* line_number k has as content the k-th line of the modified text (with the
\* '\n' that ends a line of the output), for every pending block of removed
\* and added lines and every outcome of the similarity matching (including
\* when a removed line's best match is not the added line at the same
\* position).
C38_ContentIsModifiedLine ==
  lastOp = "compute_diff" =>
    \A n \in 1..Len(ret) :
      ret[n].line_number # 0 =>
        /\ ret[n].line_number <= Len(split_newline(args[1]))
        /\ ret[n].content = split_newline(args[1])[ret[n].line_number] \o <<NL>>


\* C39: in DiffEditorView, after any sequence of key-down, mouse-down,
\* mouse-move and mouse-up events (in any interleaving, including keys typed
\* while the mouse button is held), whenever get_selection_range() is Some(r)
\* it satisfies r.end <= buffer.len(), and the view's delete_selection never
\* fails (neither when an event called it, nor if it were called now).
C39_ViewSelectionInBuffer ==
  LET range == get_selection_range(view)
  IN /\ is_some(range) => range[1].end <= buffer_len(editor.buffer)
     /\ ~view_delete_selection(editor, view).panic
     /\ ~panicked

====
